---- MODULE Spec2Model ----
(***************************************************************************)
(* Model of the attendance calculation engine of the Leave & Productivity  *)
(* Analyzer (src/src/lib/calculations.ts).                                 *)
(*                                                                         *)
(* Representation of the program's values:                                 *)
(*   - a string is a sequence of one-character strings, so that trim() and *)
(*     the regular expression of parseTime are computed character by       *)
(*     character;                                                          *)
(*   - a nullable string field (string | null) is a sequence of length at  *)
(*     most one: Null is << >> and the string s is << s >>;                *)
(*   - a number that the code tests with Number.isInteger is a record      *)
(*     [n, half], standing for n + 0.5 when half is TRUE and for n         *)
(*     otherwise;                                                          *)
(*   - decimal hours are kept exactly: parseTime yields sixtieths of an    *)
(*     hour (minutes) and workedHours is in hundredths of an hour;         *)
(*   - a Date is a record [year, month, day, tod] in local time, month     *)
(*     being the 0-based month index of JavaScript and tod the minutes     *)
(*     since midnight; getTime is its distance from 1970-01-01T00:00 in    *)
(*     minutes.                                                            *)
(***************************************************************************)
EXTENDS Integers, Sequences, FiniteSets, TLC

VARIABLES
    year,        \* the year argument of the call, a number [n, half]
    month,       \* the month argument of the call, a number [n, half]
    rawRecords,  \* the rawRecords argument: a sequence of RawAttendanceInput
    outcome,     \* what the call produced: nothing yet, a record list, or a thrown error
    call,        \* a direct call of one calculation function: its name and arguments
    result,      \* what that call produced: nothing yet, a value, or a thrown error
    employees,          \* the employee collection: the names, in order of creation
    attendanceRecords,  \* the attendanceRecord collection, in order of insertion
    file,               \* the rows of the sheet of the last POST /api/upload
    response,           \* the response of the last POST /api/upload
    selectedFile,    \* FileUpload: useState<File | null>
    uploadState,     \* FileUpload: useState<UploadState>
    uploadProgress,  \* FileUpload: useState<number>
    errorMessage,    \* FileUpload: useState<string>
    uploadDetails,   \* FileUpload: useState<details | null>
    handlers         \* FileUpload: the calls of handleUpload, each with its position
                     \* in the code and whether its progress interval is set

serverVars == <<employees, attendanceRecords, file, response>>

componentVars ==
    <<selectedFile, uploadState, uploadProgress, errorMessage, uploadDetails, handlers>>

vars == <<year, month, rawRecords, outcome, call, result, serverVars, componentVars>>

----------------------------------------------------------------------------
(* Bounds of the model *)

\* Longest rawRecords list the caller builds.
MaxEntries == 2

----------------------------------------------------------------------------
(* Strings *)

Digits == {"0", "1", "2", "3", "4", "5", "6", "7", "8", "9"}

Whitespace == {" "}

DigitValue(c) ==
    CASE c = "0" -> 0 [] c = "1" -> 1 [] c = "2" -> 2 [] c = "3" -> 3
      [] c = "4" -> 4 [] c = "5" -> 5 [] c = "6" -> 6 [] c = "7" -> 7
      [] c = "8" -> 8 [] c = "9" -> 9

\* String.prototype.trim: whitespace removed at both ends.
RECURSIVE TrimStart(_)
TrimStart(s) ==
    IF s # << >> /\ Head(s) \in Whitespace THEN TrimStart(Tail(s)) ELSE s

RECURSIVE TrimEnd(_)
TrimEnd(s) ==
    IF s # << >> /\ s[Len(s)] \in Whitespace
    THEN TrimEnd(SubSeq(s, 1, Len(s) - 1))
    ELSE s

\* Variant of trim: whitespace removed at the start only.
trim_StartOnly(s) == TrimStart(s)

trim(s) == TrimEnd(TrimStart(s))

\* Variant of parseInt: only the last digit is read.
parseInt_LastDigit(s) == IF s = << >> THEN 0 ELSE DigitValue(s[Len(s)])

\* parseInt(digits, 10) on a non-empty sequence of decimal digits.
RECURSIVE parseInt(_)
parseInt(s) ==
    IF s = << >> THEN 0
    ELSE parseInt(SubSeq(s, 1, Len(s) - 1)) * 10 + DigitValue(s[Len(s)])

Null == << >>

Str(s) == << s >>

----------------------------------------------------------------------------
(* Results of operations that may throw *)

Return(v) == [ok |-> TRUE, value |-> v, error |-> "none"]

Throw(e) == [ok |-> FALSE, value |-> 0, error |-> e]

\* A call that has not been made yet: neither a value nor an error.
Pending == [ok |-> FALSE, value |-> 0, error |-> "none"]

\* No request has reached POST /api/upload and the collections are empty.
NoUpload ==
    /\ employees = << >>
    /\ attendanceRecords = << >>
    /\ file = << >>
    /\ response = [status |-> 0, error |-> "none", details |-> << >>]

\* The FileUpload component as it is mounted: the initial values of its
\* useState calls, and no call of handleUpload.
NoComponent ==
    /\ selectedFile = << >>
    /\ uploadState = "idle"
    /\ uploadProgress = 0
    /\ errorMessage = ""
    /\ uploadDetails = << >>
    /\ handlers = << >>

----------------------------------------------------------------------------
(* Time parsing *)

\* /^([0-1]?[0-9]|2[0-3]):([0-5][0-9])$/ : the hour group is one digit, or
\* two digits 00..19, or 20..23; then a colon; then the minute group.
HourGroupMatches(h) ==
    \/ Len(h) = 1 /\ h[1] \in Digits
    \/ Len(h) = 2 /\ h[1] \in {"0", "1"} /\ h[2] \in Digits
    \/ Len(h) = 2 /\ h[1] = "2" /\ h[2] \in {"0", "1", "2", "3"}

MinuteGroupMatches(m) ==
    Len(m) = 2 /\ m[1] \in {"0", "1", "2", "3", "4", "5"} /\ m[2] \in Digits

isValidTimeFormat(timeStr) ==
    /\ Len(timeStr) \in {4, 5}
    /\ timeStr[Len(timeStr) - 2] = ":"
    /\ HourGroupMatches(SubSeq(timeStr, 1, Len(timeStr) - 3))
    /\ MinuteGroupMatches(SubSeq(timeStr, Len(timeStr) - 1, Len(timeStr)))

\* The decimal hours of a time string, in minutes (hours + minutes / 60,
\* times 60), or InvalidTimeFormatError.
parseTime(timeStr) ==
    IF Len(trim(timeStr)) = 0 THEN Throw("InvalidTimeFormatError")
    ELSE LET trimmedTime == trim(timeStr) IN
         IF ~isValidTimeFormat(trimmedTime) THEN Throw("InvalidTimeFormatError")
         ELSE LET hours   == parseInt(SubSeq(trimmedTime, 1, Len(trimmedTime) - 3))
                  minutes == parseInt(SubSeq(trimmedTime, Len(trimmedTime) - 1,
                                             Len(trimmedTime)))
              IN  IF hours < 0 \/ hours > 23 THEN Throw("InvalidTimeFormatError")
                  ELSE IF minutes < 0 \/ minutes > 59
                       THEN Throw("InvalidTimeFormatError")
                       ELSE Return(hours * 60 + minutes)

\* Variant of the rounding: the hundredths are truncated.
RoundHundredths_Truncate(m) == (100 * m) \div 60

\* Math.round(x * 100) / 100 for x = m / 60 hours, in hundredths of an hour:
\* Math.round rounds to the nearest integer, a half towards +infinity.
RoundHundredths(m) == (200 * m + 60) \div 120

\* Variants of calculateWorkedHours: the difference is taken without the
\* overnight wraparound; equal times count as an overnight shift.
calculateWorkedHours_NoWrap(inTime, outTime) ==
    LET inHours  == parseTime(inTime)
        outHours == parseTime(outTime)
    IN  IF ~inHours.ok THEN inHours
        ELSE IF ~outHours.ok THEN outHours
        ELSE IF outHours.value >= inHours.value
             THEN Return(RoundHundredths(outHours.value - inHours.value))
             ELSE Return(RoundHundredths(inHours.value - outHours.value))

calculateWorkedHours_EqualIsOvernight(inTime, outTime) ==
    LET inHours  == parseTime(inTime)
        outHours == parseTime(outTime)
    IN  IF ~inHours.ok THEN inHours
        ELSE IF ~outHours.ok THEN outHours
        ELSE LET workedHours ==
                     IF outHours.value > inHours.value
                     THEN outHours.value - inHours.value
                     ELSE 24 * 60 - inHours.value + outHours.value
             IN  IF workedHours < 0 \/ workedHours > 24 * 60
                 THEN Throw("CalculationError")
                 ELSE Return(RoundHundredths(workedHours))

\* Worked hours in hundredths of an hour, InvalidTimeFormatError from
\* parseTime, or CalculationError when outside [0, 24].
calculateWorkedHours(inTime, outTime) ==
    LET inHours  == parseTime(inTime)
        outHours == parseTime(outTime)
    IN  IF ~inHours.ok THEN inHours
        ELSE IF ~outHours.ok THEN outHours
        ELSE LET workedHours ==
                     IF outHours.value >= inHours.value
                     THEN outHours.value - inHours.value
                     ELSE 24 * 60 - inHours.value + outHours.value
             IN  IF workedHours < 0 \/ workedHours > 24 * 60
                 THEN Throw("CalculationError")
                 ELSE Return(RoundHundredths(workedHours))

----------------------------------------------------------------------------
(* Dates (JavaScript Date in local time, and the date-fns functions used) *)

isLeapYear(y) == (y % 4 = 0 /\ y % 100 # 0) \/ y % 400 = 0

\* Days of the month with 0-based index monthIndex of year y.
DaysOfMonth(y, monthIndex) ==
    CASE monthIndex = 1 -> IF isLeapYear(y) THEN 29 ELSE 28
      [] monthIndex \in {3, 5, 8, 10} -> 30
      [] OTHER -> 31

\* Days from 1970-01-01 to the civil date (y, m, d), m being 1-based.
DaysFromCivil(y, m, d) ==
    LET yy  == IF m <= 2 THEN y - 1 ELSE y
        era == yy \div 400
        yoe == yy - era * 400
        mp  == IF m > 2 THEN m - 3 ELSE m + 9
        doy == (153 * mp + 2) \div 5 + d - 1
        doe == yoe * 365 + yoe \div 4 - yoe \div 100 + doy
    IN  era * 146097 + doe - 719468

\* new Date(year, monthIndex, day): a month index outside 0..11 carries
\* into the year.
NewDate(y, monthIndex, d) ==
    [year |-> y + monthIndex \div 12, month |-> monthIndex % 12, day |-> d, tod |-> 0]

\* Date.prototype.getTime, in minutes.
getTime(date) ==
    DaysFromCivil(date.year, date.month + 1, date.day) * 1440 + date.tod

\* Variant of getDay: the ISO numbering, 0 is Monday.
getDay_MondayFirst(date) ==
    (DaysFromCivil(date.year, date.month + 1, date.day) + 3) % 7

\* Date.prototype.getDay: 0 is Sunday (1970-01-01 was a Thursday).
getDay(date) == (DaysFromCivil(date.year, date.month + 1, date.day) + 4) % 7

isSunday(date) == getDay(date) = 0

isSaturday(date) == getDay(date) = 6

startOfDay(date) == [date EXCEPT !.tod = 0]

startOfMonth(date) == [date EXCEPT !.day = 1, !.tod = 0]

getDaysInMonth(date) == DaysOfMonth(date.year, date.month)

setDate(date, dayOfMonth) == [date EXCEPT !.day = dayOfMonth]

\* Variant of normalizeDate: the time of day is kept.
normalizeDate_KeepsTime(date) == date

normalizeDate(date) == startOfDay(date)

----------------------------------------------------------------------------
(* Expected hours *)

\* new Date(NaN): a Date object whose time value is NaN.
InvalidDate == [year |-> 0, month |-> 0, day |-> 0, tod |-> 0]

\* The business rules, in hundredths of an hour.
EXPECTED_HOURS == [WEEKDAY |-> 850, SATURDAY |-> 400, SUNDAY |-> 0]

\* Variant of getExpectedHours: no hours are expected on a Saturday.
getExpectedHours_SaturdayOff(date) ==
    IF date = InvalidDate THEN Throw("InvalidDateError")
    ELSE IF isSunday(date) \/ isSaturday(date) THEN Return(EXPECTED_HOURS.SUNDAY)
    ELSE Return(EXPECTED_HOURS.WEEKDAY)

\* Expected hours of a date, in hundredths of an hour, or InvalidDateError.
getExpectedHours(date) ==
    IF date = InvalidDate THEN Throw("InvalidDateError")
    ELSE IF isSunday(date) THEN Return(EXPECTED_HOURS.SUNDAY)
    ELSE IF isSaturday(date) THEN Return(EXPECTED_HOURS.SATURDAY)
    ELSE Return(EXPECTED_HOURS.WEEKDAY)

----------------------------------------------------------------------------
(* Natural numbers of any size: a sequence of limbs in base 2^15, the least
   significant first and the last one not 0; << >> is 0.  They carry the
   53-bit significands of the numbers below. *)

LimbBits == 15

LimbBase == 2 ^ LimbBits

Limb(a, i) == IF i <= Len(a) THEN a[i] ELSE 0

RECURSIVE BigNormalize(_)
BigNormalize(a) ==
    IF a # << >> /\ a[Len(a)] = 0 THEN BigNormalize(SubSeq(a, 1, Len(a) - 1)) ELSE a

RECURSIVE BigFromInt(_)
BigFromInt(n) ==
    IF n = 0 THEN << >> ELSE <<n % LimbBase>> \o BigFromInt(n \div LimbBase)

RECURSIVE BigToInt(_)
BigToInt(a) ==
    IF a = << >> THEN 0 ELSE a[1] + LimbBase * BigToInt(Tail(a))

RECURSIVE BigAddFrom(_, _, _, _)
BigAddFrom(a, b, i, carry) ==
    IF i > Len(a) /\ i > Len(b)
    THEN IF carry = 0 THEN << >> ELSE <<carry>>
    ELSE LET t == Limb(a, i) + Limb(b, i) + carry
         IN  <<t % LimbBase>> \o BigAddFrom(a, b, i + 1, t \div LimbBase)

BigAdd(a, b) == BigAddFrom(a, b, 1, 0)

\* a - b for a >= b.
RECURSIVE BigSubFrom(_, _, _, _)
BigSubFrom(a, b, i, borrow) ==
    IF i > Len(a) THEN << >>
    ELSE LET t == Limb(a, i) - Limb(b, i) - borrow
         IN  <<t % LimbBase>> \o BigSubFrom(a, b, i + 1, IF t < 0 THEN 1 ELSE 0)

BigSub(a, b) == BigNormalize(BigSubFrom(a, b, 1, 0))

BigLess(a, b) ==
    IF Len(a) # Len(b) THEN Len(a) < Len(b)
    ELSE \E i \in 1..Len(a) :
             a[i] < b[i] /\ \A j \in (i + 1)..Len(a) : a[j] = b[j]

\* a * k for 0 <= k <= LimbBase.
RECURSIVE BigMulSmallFrom(_, _, _, _)
BigMulSmallFrom(a, k, i, carry) ==
    IF i > Len(a)
    THEN IF carry = 0 THEN << >> ELSE <<carry>>
    ELSE LET t == a[i] * k + carry
         IN  <<t % LimbBase>> \o BigMulSmallFrom(a, k, i + 1, t \div LimbBase)

BigMulSmall(a, k) == BigNormalize(BigMulSmallFrom(a, k, 1, 0))

\* a * LimbBase^n.
BigShiftLimbs(a, n) == IF a = << >> THEN << >> ELSE [i \in 1..n |-> 0] \o a

RECURSIVE BigMul(_, _)
BigMul(a, b) ==
    IF b = << >> THEN << >>
    ELSE BigAdd(BigMulSmall(a, b[1]), BigShiftLimbs(BigMul(a, Tail(b)), 1))

\* a * 2^s.
BigShiftLeft(a, s) ==
    BigShiftLimbs(BigMulSmall(a, 2 ^ (s % LimbBits)), s \div LimbBits)

\* The quotient of a by d for 0 < d <= LimbBase, limbs i down to 1, r being
\* the remainder of the limbs above.
RECURSIVE BigDivSmallFrom(_, _, _, _)
BigDivSmallFrom(a, d, i, r) ==
    IF i = 0 THEN << >>
    ELSE LET t == r * LimbBase + a[i]
         IN  Append(BigDivSmallFrom(a, d, i - 1, t % d), t \div d)

\* floor(a / 2^s).
BigShiftRight(a, s) ==
    LET high == SubSeq(a, s \div LimbBits + 1, Len(a))
    IN  BigNormalize(BigDivSmallFrom(high, 2 ^ (s % LimbBits), Len(high), 0))

\* Number of bits of a: 0 for 0, else k with 2^(k-1) <= a < 2^k.
BigBitLength(a) ==
    IF a = << >> THEN 0
    ELSE LimbBits * (Len(a) - 1)
           + (CHOOSE k \in 1..LimbBits : 2 ^ (k - 1) <= a[Len(a)] /\ a[Len(a)] < 2 ^ k)

BigIsOdd(a) == a # << >> /\ a[1] % 2 = 1

\* One step of the long division by b: with a = quotient * b + remainder
\* and remainder < b, the same for 2 * a.
BigDivStep(s, b) ==
    LET r2 == BigMulSmall(s.remainder, 2)
        q2 == BigMulSmall(s.quotient, 2)
    IN  IF BigLess(r2, b)
        THEN [quotient |-> q2, remainder |-> r2]
        ELSE [quotient |-> BigAdd(q2, <<1>>), remainder |-> BigSub(r2, b)]

\* n >= 1 steps of the long division by b from s: the quotient and
\* remainder of a * 2^n.  The steps are taken half by half.
RECURSIVE BigDivBits(_, _, _)
BigDivBits(s, b, n) ==
    IF n = 1 THEN BigDivStep(s, b)
    ELSE CHOOSE t \in { BigDivBits(p, b, n - n \div 2) :
                          p \in {BigDivBits(s, b, n \div 2)} } : TRUE

----------------------------------------------------------------------------
(* Numbers: IEEE 754 binary64, the Number type of JavaScript.  A finite
   number is [neg, m, e] and stands for m * 2^e, negated when neg: m is 0
   (and e is 0), or has exactly SignificandBits bits.  The arithmetic
   rounds to the nearest number, a tie to the even significand; NaN, the
   infinities and the subnormal numbers do not arise from the hours of a
   month. *)

SignificandBits == 53

Zero == [neg |-> FALSE, m |-> << >>, e |-> 0]

\* The number nearest to n * 2^e, given that the exact value is n * 2^e,
\* or slightly more when sticky.
RoundToFloat(n, e, sticky) ==
    LET len == BigBitLength(n) IN
    IF len = 0 THEN Zero
    ELSE IF len <= SignificandBits
    THEN [neg |-> FALSE, m |-> BigShiftLeft(n, SignificandBits - len),
          e |-> e - (SignificandBits - len)]
    ELSE LET drop == len - SignificandBits
             kept == BigShiftRight(n, drop)
             rest == BigSub(n, BigShiftLeft(kept, drop))
             half == BigShiftLeft(<<1>>, drop - 1)
             up   == \/ BigLess(half, rest)
                     \/ rest = half /\ (sticky \/ BigIsOdd(kept))
             m    == IF up THEN BigAdd(kept, <<1>>) ELSE kept
         IN  IF BigBitLength(m) > SignificandBits
             THEN [neg |-> FALSE, m |-> BigShiftRight(m, 1), e |-> e + drop + 1]
             ELSE [neg |-> FALSE, m |-> m, e |-> e + drop]

\* The number of an integer literal.
FloatOf(k) ==
    IF k < 0 THEN [RoundToFloat(BigFromInt(-k), 0, FALSE) EXCEPT !.neg = TRUE]
    ELSE RoundToFloat(BigFromInt(k), 0, FALSE)

\* x + y for x, y >= 0.
FloatAdd(x, y) ==
    IF x.m = << >> THEN y
    ELSE IF y.m = << >> THEN x
    ELSE LET e == IF x.e < y.e THEN x.e ELSE y.e
         IN  RoundToFloat(BigAdd(BigShiftLeft(x.m, x.e - e),
                                  BigShiftLeft(y.m, y.e - e)), e, FALSE)

\* x - y for x >= y >= 0.
FloatSub(x, y) ==
    IF y.m = << >> THEN x
    ELSE LET e == IF x.e < y.e THEN x.e ELSE y.e
         IN  RoundToFloat(BigSub(BigShiftLeft(x.m, x.e - e),
                                 BigShiftLeft(y.m, y.e - e)), e, FALSE)

\* x < y for x, y >= 0.
FloatLess(x, y) ==
    IF y.m = << >> THEN FALSE
    ELSE IF x.m = << >> THEN TRUE
    ELSE IF x.e # y.e THEN x.e < y.e
    ELSE BigLess(x.m, y.m)

\* x * y for x, y >= 0.
FloatMul(x, y) == RoundToFloat(BigMul(x.m, y.m), x.e + y.e, FALSE)

\* x / y for x >= 0 and y > 0.
FloatDiv(x, y) ==
    IF x.m = << >> THEN Zero
    ELSE LET first == IF BigLess(x.m, y.m)
                      THEN [quotient |-> << >>, remainder |-> x.m]
                      ELSE [quotient |-> <<1>>, remainder |-> BigSub(x.m, y.m)]
             d     == BigDivBits(first, y.m, SignificandBits + 2)
         IN  RoundToFloat(d.quotient, x.e - y.e - (SignificandBits + 2),
                           d.remainder # << >>)

\* x < 0 and x === 0.
FloatIsNegative(x) == x.neg /\ x.m # << >>

FloatIsZero(x) == x.m = << >>

\* Math.round(x) for 0 <= x < 2^30, as an integer: the nearest integer, a
\* half towards +infinity.
MathRound(x) ==
    IF x.m = << >> THEN 0
    ELSE IF x.e >= 0 THEN BigToInt(BigShiftLeft(x.m, x.e))
    ELSE IF -x.e > SignificandBits THEN 0
    ELSE LET whole == BigShiftRight(x.m, -x.e)
             rest  == BigSub(x.m, BigShiftLeft(whole, -x.e))
             half  == BigShiftLeft(<<1>>, -x.e - 1)
         IN  BigToInt(whole) + (IF BigLess(rest, half) THEN 0 ELSE 1)

\* The number k / 100 of a count k of hundredths, as Math.round(x * 100) / 100
\* yields it and as the decimal literal with two decimals denotes it.
Hundredths(k) ==
    IF k < 0 THEN [FloatDiv(FloatOf(-k), FloatOf(100)) EXCEPT !.neg = TRUE]
    ELSE FloatDiv(FloatOf(k), FloatOf(100))

----------------------------------------------------------------------------
(* The binary64 numbers behind the hours.  parseTime and
   calculateWorkedHours above keep the hours exactly, as minutes and as
   hundredths; these are the numbers the code computes for them. *)

\* hours + minutes / 60.0
DecimalHours(hours, minutes) ==
    FloatAdd(FloatOf(hours), FloatDiv(FloatOf(minutes), FloatOf(60)))

\* outHours - inHours, or 24 - inHours + outHours for an overnight shift.
WorkedHoursNumber(inHours, outHours) ==
    IF ~FloatLess(outHours, inHours) THEN FloatSub(outHours, inHours)
    ELSE FloatAdd(FloatSub(FloatOf(24), inHours), outHours)

----------------------------------------------------------------------------
(* Productivity.  A number of hours that is read or returned with two
   decimals is given by its count of hundredths, a percentage returned with
   one decimal by its count of tenths: Math.round(x * 100) / 100 is the
   number Hundredths(Math.round(x * 100)).  The totals in between are
   binary64 numbers. *)

\* Variant of calculateProductivity: the percentage is capped at 100.
calculateProductivity_Capped(actualHours, expectedHours) ==
    IF FloatIsNegative(actualHours) \/ FloatIsNegative(expectedHours)
    THEN Throw("CalculationError")
    ELSE IF FloatIsZero(expectedHours) THEN Return(1000)
    ELSE LET productivity == FloatMul(FloatDiv(actualHours, expectedHours), FloatOf(100))
             tenths       == MathRound(FloatMul(productivity, FloatOf(10)))
         IN  Return(IF tenths > 1000 THEN 1000 ELSE tenths)

\* The productivity percentage in tenths of a percent, or CalculationError.
calculateProductivity(actualHours, expectedHours) ==
    IF FloatIsNegative(actualHours) THEN Throw("CalculationError")
    ELSE IF FloatIsNegative(expectedHours) THEN Throw("CalculationError")
    ELSE IF FloatIsZero(expectedHours) THEN Return(1000)
    ELSE LET productivity == FloatMul(FloatDiv(actualHours, expectedHours), FloatOf(100))
         IN  Return(MathRound(FloatMul(productivity, FloatOf(10))))

\* Variant of the loop body: a record whose status is not PRESENT or ABSENT
\* is taken as a day off, whatever its date.
AddRecord_ByStatus(totals, record) ==
    IF ~totals.ok THEN totals
    ELSE LET expected == getExpectedHours(record.date) IN
         IF ~expected.ok THEN expected
         ELSE Return([actual   |-> FloatAdd(totals.value.actual,
                                            Hundredths(record.workedHours)),
                      expected |-> FloatAdd(totals.value.expected,
                                            IF record.status \in {"PRESENT", "ABSENT"}
                                            THEN Hundredths(expected.value)
                                            ELSE Zero)])

\* The body of the loop over the records: both totals grow, unless
\* getExpectedHours throws.
AddRecord(totals, record) ==
    IF ~totals.ok THEN totals
    ELSE LET expected == getExpectedHours(record.date) IN
         IF ~expected.ok THEN expected
         ELSE Return([actual   |-> FloatAdd(totals.value.actual,
                                            Hundredths(record.workedHours)),
                      expected |-> FloatAdd(totals.value.expected,
                                            Hundredths(expected.value))])

\* totalActualHours and totalExpectedHours after the first n records.
RECURSIVE TotalHours(_, _)
TotalHours(records, n) ==
    IF n = 0 THEN Return([actual |-> Zero, expected |-> Zero])
    ELSE CHOOSE t \in { AddRecord(before, records[n]) :
                          before \in {TotalHours(records, n - 1)} } : TRUE

\* The metrics of a record list: actualHours and expectedHours in
\* hundredths of an hour and productivityPercentage in tenths of a percent,
\* or CalculationError on an empty list.
calculateAggregateProductivity(records) ==
    IF records = << >> THEN Throw("CalculationError")
    ELSE LET totals == TotalHours(records, Len(records)) IN
         IF ~totals.ok THEN totals
         ELSE LET productivityPercentage ==
                      calculateProductivity(totals.value.actual, totals.value.expected)
              IN  IF ~productivityPercentage.ok THEN productivityPercentage
                  ELSE Return(
                      [actualHours   |->
                           MathRound(FloatMul(totals.value.actual, FloatOf(100))),
                       expectedHours |->
                           MathRound(FloatMul(totals.value.expected, FloatOf(100))),
                       productivityPercentage |-> productivityPercentage.value])

----------------------------------------------------------------------------
(* Numbers tested with Number.isInteger *)

Int_(k) == [n |-> k, half |-> FALSE]

Half(k) == [n |-> k, half |-> TRUE]

NumberIsInteger(x) == ~x.half

\* x < k and x > k for an integer k.
NumLess(x, k) == x.n < k

NumGreater(x, k) == x.n > k \/ (x.n = k /\ x.half)

----------------------------------------------------------------------------
(* Monthly attendance processing *)

\* What a call of processMonthlyAttendance produces: the record list it
\* returns, or the error it throws (and then no list at all).
Returned(records) == [kind |-> "returned", records |-> records, error |-> "none"]

Thrown(e) == [kind |-> "thrown", records |-> << >>, error |-> e]

NotCalled == [kind |-> "none", records |-> << >>, error |-> "none"]

\* Variants of generateMonthDates: the loop stops one day early; the dates
\* are collected in front of the list; the month is taken as 0-based.
generateMonthDates_StopsEarly(y, m) ==
    IF ~NumberIsInteger(y) \/ NumLess(y, 1900) \/ NumGreater(y, 2100)
    THEN Throw("InvalidDateError")
    ELSE IF ~NumberIsInteger(m) \/ NumLess(m, 1) \/ NumGreater(m, 12)
    THEN Throw("InvalidDateError")
    ELSE LET firstDay    == startOfMonth(NewDate(y.n, m.n - 1, 1))
             daysInMonth == getDaysInMonth(firstDay)
         IN  Return([day \in 1..(daysInMonth - 1) |->
                        normalizeDate(setDate(firstDay, day))])

generateMonthDates_Unshift(y, m) ==
    IF ~NumberIsInteger(y) \/ NumLess(y, 1900) \/ NumGreater(y, 2100)
    THEN Throw("InvalidDateError")
    ELSE IF ~NumberIsInteger(m) \/ NumLess(m, 1) \/ NumGreater(m, 12)
    THEN Throw("InvalidDateError")
    ELSE LET firstDay    == startOfMonth(NewDate(y.n, m.n - 1, 1))
             daysInMonth == getDaysInMonth(firstDay)
         IN  Return([i \in 1..daysInMonth |->
                        normalizeDate(setDate(firstDay, daysInMonth + 1 - i))])

generateMonthDates_ZeroBased(y, m) ==
    IF ~NumberIsInteger(y) \/ NumLess(y, 1900) \/ NumGreater(y, 2100)
    THEN Throw("InvalidDateError")
    ELSE IF ~NumberIsInteger(m) \/ NumLess(m, 0) \/ NumGreater(m, 11)
    THEN Throw("InvalidDateError")
    ELSE LET firstDay    == startOfMonth(NewDate(y.n, m.n, 1))
             daysInMonth == getDaysInMonth(firstDay)
         IN  Return([day \in 1..daysInMonth |-> normalizeDate(setDate(firstDay, day))])

\* The dates of the month, day 1 to the last, or InvalidDateError.
generateMonthDates(y, m) ==
    IF ~NumberIsInteger(y) \/ NumLess(y, 1900) \/ NumGreater(y, 2100)
    THEN Throw("InvalidDateError")
    ELSE IF ~NumberIsInteger(m) \/ NumLess(m, 1) \/ NumGreater(m, 12)
    THEN Throw("InvalidDateError")
    ELSE LET firstDay    == startOfMonth(NewDate(y.n, m.n - 1, 1))
             daysInMonth == getDaysInMonth(firstDay)
         IN  Return([day \in 1..daysInMonth |-> normalizeDate(setDate(firstDay, day))])

\* Variants of findRecordForDate: the last match instead of the first; the
\* day of the month compared instead of the time value.
findRecordForDate_Last(targetDate, records) ==
    LET targetTime == getTime(targetDate)
        matching   == {i \in 1..Len(records) :
                          getTime(normalizeDate(records[i].date)) = targetTime}
    IN  IF matching = {} THEN 0
        ELSE CHOOSE i \in matching : \A j \in matching : i >= j

findRecordForDate_DayOnly(targetDate, records) ==
    LET matching == {i \in 1..Len(records) : records[i].date.day = targetDate.day}
    IN  IF matching = {} THEN 0
        ELSE CHOOSE i \in matching : \A j \in matching : i <= j

\* Array.prototype.find with the predicate of findRecordForDate: the index
\* of the first record whose normalized date has the target's time value, 0
\* when there is none (undefined).
findRecordForDate(targetDate, records) ==
    LET targetTime == getTime(targetDate)
        matching   == {i \in 1..Len(records) :
                          getTime(normalizeDate(records[i].date)) = targetTime}
    IN  IF matching = {} THEN 0
        ELSE CHOOSE i \in matching : \A j \in matching : i <= j

\* Variant of the catch block: the day is marked absent instead of rethrowing.
CatchTimeError_Swallow(error, date, rawRecord) ==
    Return([employeeId  |-> rawRecord.employeeId,
            date        |-> date,
            inTime      |-> Null,
            outTime     |-> Null,
            workedHours |-> 0,
            status      |-> "ABSENT"])

\* The catch block of the PRESENT case: logs the error and rethrows it.
CatchTimeError(error, date, rawRecord) == Throw(error)

\* Variant: the employee of the last raw record instead of the first.
FirstEmployeeId_Last(normalizedRawRecords) ==
    IF Len(normalizedRawRecords) = 0 THEN ""
    ELSE normalizedRawRecords[Len(normalizedRawRecords)].employeeId

\* normalizedRawRecords[0]?.employeeId || ''
FirstEmployeeId(normalizedRawRecords) ==
    IF Len(normalizedRawRecords) = 0 THEN ""
    ELSE normalizedRawRecords[1].employeeId

\* CASE 1 of the map callback: a raw record exists for the date.
PresentCase(date, rawRecord) ==
    LET workedHours == calculateWorkedHours(rawRecord.inTime, rawRecord.outTime)
    IN  IF workedHours.ok
        THEN Return([employeeId  |-> rawRecord.employeeId,
                     date        |-> date,
                     inTime      |-> Str(rawRecord.inTime),
                     outTime     |-> Str(rawRecord.outTime),
                     workedHours |-> workedHours.value,
                     status      |-> "PRESENT"])
        ELSE CatchTimeError(workedHours.error, date, rawRecord)

\* Variant of CASE 2: Saturday is a day off like Sunday.
AbsentCase_SaturdayOff(date, normalizedRawRecords) ==
    Return([employeeId  |-> FirstEmployeeId(normalizedRawRecords),
            date        |-> date,
            inTime      |-> Null,
            outTime     |-> Null,
            workedHours |-> 0,
            status      |-> IF isSunday(date) \/ isSaturday(date)
                            THEN "WEEKEND" ELSE "ABSENT"])

\* CASE 2 of the map callback: no raw record exists for the date.
AbsentCase(date, normalizedRawRecords) ==
    IF isSunday(date)
    THEN Return([employeeId  |-> FirstEmployeeId(normalizedRawRecords),
                 date        |-> date,
                 inTime      |-> Null,
                 outTime     |-> Null,
                 workedHours |-> 0,
                 status      |-> "WEEKEND"])
    ELSE Return([employeeId  |-> FirstEmployeeId(normalizedRawRecords),
                 date        |-> date,
                 inTime      |-> Null,
                 outTime     |-> Null,
                 workedHours |-> 0,
                 status      |-> "ABSENT"])

\* Variant of the map callback: a Sunday is a day off even when a raw record
\* exists for it.
ProcessDate_SundayOff(date, normalizedRawRecords) ==
    LET found == findRecordForDate(date, normalizedRawRecords) IN
    IF found # 0 /\ ~isSunday(date)
    THEN PresentCase(date, normalizedRawRecords[found])
    ELSE AbsentCase(date, normalizedRawRecords)

\* The callback of allDatesInMonth.map: the record of one date, or the
\* error it throws.
ProcessDate(date, normalizedRawRecords) ==
    LET found == findRecordForDate(date, normalizedRawRecords) IN
    IF found # 0
    THEN PresentCase(date, normalizedRawRecords[found])
    ELSE AbsentCase(date, normalizedRawRecords)

\* allDatesInMonth.map(callback): the callback runs on the dates in order
\* and the first error it throws ends the call.
MapDates(dates, normalizedRawRecords) ==
    LET mapped  == [i \in 1..Len(dates) |-> ProcessDate(dates[i], normalizedRawRecords)]
        failing == {i \in 1..Len(dates) : ~mapped[i].ok}
    IN  IF failing # {}
        THEN Thrown(mapped[CHOOSE i \in failing : \A j \in failing : i <= j].error)
        ELSE Returned([i \in 1..Len(dates) |-> mapped[i].value])

\* Variant of processMonthlyAttendance: the times of every raw record are
\* validated before the dates are walked.
processMonthlyAttendance_ValidateAll(y, m, records) ==
    LET normalizedRawRecords ==
            [i \in 1..Len(records) |->
                [records[i] EXCEPT !.date = normalizeDate(records[i].date)]]
        allDatesInMonth == generateMonthDates(y, m)
        invalid == {i \in 1..Len(records) :
                       ~calculateWorkedHours(records[i].inTime, records[i].outTime).ok}
    IN  IF ~allDatesInMonth.ok THEN Thrown(allDatesInMonth.error)
        ELSE IF invalid # {} THEN Thrown("InvalidTimeFormatError")
        ELSE MapDates(allDatesInMonth.value, normalizedRawRecords)

processMonthlyAttendance(y, m, records) ==
    LET normalizedRawRecords ==
            [i \in 1..Len(records) |->
                [records[i] EXCEPT !.date = normalizeDate(records[i].date)]]
        allDatesInMonth == generateMonthDates(y, m)
    IN  IF ~allDatesInMonth.ok THEN Thrown(allDatesInMonth.error)
        ELSE MapDates(allDatesInMonth.value, normalizedRawRecords)

----------------------------------------------------------------------------
(* Inputs of the model *)

T_09_00  == <<"0", "9", ":", "0", "0">>
T_17_30  == <<"1", "7", ":", "3", "0">>
\* " 23:00" and "01:00 ": valid once trimmed, an overnight shift.
T_23_00s == <<" ", "2", "3", ":", "0", "0">>
T_01_00s == <<"0", "1", ":", "0", "0", " ">>
\* "9:5" (one-digit minute) and "25:00" (hour above 23): rejected.
T_9_5    == <<"9", ":", "5">>
T_25_00  == <<"2", "5", ":", "0", "0">>

\* (inTime, outTime) of the raw entries.
TimePairs ==
    { <<T_09_00, T_17_30>>, <<T_23_00s, T_01_00s>>,
      <<T_9_5, T_17_30>>, <<T_09_00, T_25_00>> }

\* Dates of the raw entries: Thursday 2024-02-01 at midnight and at 14:30,
\* Sunday 2024-02-04 at 09:00, and 2024-01-31 at 23:59.
EntryDates ==
    { [year |-> 2024, month |-> 1, day |-> 1,  tod |-> 0],
      [year |-> 2024, month |-> 1, day |-> 1,  tod |-> 870],
      [year |-> 2024, month |-> 1, day |-> 4,  tod |-> 540],
      [year |-> 2024, month |-> 0, day |-> 31, tod |-> 1439] }

EmployeeIds == {"emp1", "emp2"}

\* The raw entries a caller passes: every date with every pair of times for
\* the first employee, and two well-formed entries of a second employee.
RawInputs ==
    { [employeeId |-> "emp1", date |-> d, inTime |-> t[1], outTime |-> t[2]] :
        d \in EntryDates, t \in TimePairs }
    \cup
    { [employeeId |-> "emp2", date |-> d, inTime |-> T_09_00, outTime |-> T_17_30] :
        d \in { x \in EntryDates : x.tod \in {870, 1439} } }

YearInputs == {Int_(1899), Int_(1900), Int_(2024), Half(2024), Int_(2100), Int_(2101)}

MonthInputs == {Int_(0), Int_(1), Int_(2), Half(2), Int_(4), Int_(12), Int_(13)}

RawRecordLists == UNION {[1..k -> RawInputs] : k \in 0..MaxEntries}

----------------------------------------------------------------------------
(* The state machine: a caller holding (year, month, rawRecords) calls
   processMonthlyAttendance once. *)

\* The raw entries are all dated 2024: a list of more than one entry is
\* passed with the target year 2024, a list of at most one entry with every
\* target year.
Init ==
    /\ year \in YearInputs
    /\ month \in MonthInputs
    /\ rawRecords \in RawRecordLists
    /\ Len(rawRecords) > 1 => year = Int_(2024)
    /\ outcome = NotCalled
    /\ call = [fn |-> "processMonthlyAttendance"]
    /\ result = Pending
    /\ NoUpload
    /\ NoComponent

Call ==
    /\ outcome.kind = "none"
    /\ outcome' = processMonthlyAttendance(year, month, rawRecords)
    /\ UNCHANGED <<year, month, rawRecords, call, result, serverVars, componentVars>>

Next == Call

Spec == Init /\ [][Next]_vars

----------------------------------------------------------------------------
(* Direct calls of the calculation functions.  In each of the following
   state machines a caller holds the arguments of one function (call) and
   calls it once (result); the variables of processMonthlyAttendance stay
   as they are. *)

NoMonthlyCall ==
    /\ year = Int_(2024)
    /\ month = Int_(1)
    /\ rawRecords = << >>
    /\ outcome = NotCalled

Done == result.ok \/ result.error # "none"

----------------------------------------------------------------------------
(* parseTime called on a time string *)

\* Longest string over TimeAlphabet that is passed to parseTime.
MaxTimeLen == 4

DigitChar(d) == CHOOSE c \in Digits : DigitValue(c) = d

\* n.toString().padStart(2, '0') for 0 <= n <= 99.
TwoDigits(n) == <<DigitChar(n \div 10), DigitChar(n % 10)>>

\* n.toString() for 0 <= n <= 99.
NumberToString(n) == IF n < 10 THEN <<DigitChar(n)>> ELSE TwoDigits(n)

\* Hours and minutes that callers write into time strings, in and out of
\* range.
HourInputs == 0 .. 25

MinuteInputs == 0 .. 61

\* The ways a caller writes hour h and minute m into a string.
TimeShapes ==
    { "HH:MM", "H:MM", "HH:M", " HH:MM", "HH:MM ", " HH:MM ", "xHH:MM",
      "HH:MMx", "0HH:MM", "HH:MM0", "HH.MM", "HHMM", "HH :MM" }

RenderTime(shape, h, m) ==
    CASE shape = "HH:MM"   -> TwoDigits(h) \o <<":">> \o TwoDigits(m)
      [] shape = "H:MM"    -> NumberToString(h) \o <<":">> \o TwoDigits(m)
      [] shape = "HH:M"    -> TwoDigits(h) \o <<":">> \o NumberToString(m)
      [] shape = " HH:MM"  -> <<" ">> \o TwoDigits(h) \o <<":">> \o TwoDigits(m)
      [] shape = "HH:MM "  -> TwoDigits(h) \o <<":">> \o TwoDigits(m) \o <<" ">>
      [] shape = " HH:MM " -> <<" ", " ">> \o NumberToString(h) \o <<":">> \o TwoDigits(m)
                                  \o <<" ">>
      [] shape = "xHH:MM"  -> <<"x">> \o TwoDigits(h) \o <<":">> \o TwoDigits(m)
      [] shape = "HH:MMx"  -> TwoDigits(h) \o <<":">> \o TwoDigits(m) \o <<"x">>
      [] shape = "0HH:MM"  -> <<"0">> \o TwoDigits(h) \o <<":">> \o TwoDigits(m)
      [] shape = "HH:MM0"  -> TwoDigits(h) \o <<":">> \o TwoDigits(m) \o <<"0">>
      [] shape = "HH.MM"   -> TwoDigits(h) \o <<".">> \o TwoDigits(m)
      [] shape = "HHMM"    -> TwoDigits(h) \o TwoDigits(m)
      [] shape = "HH :MM"  -> TwoDigits(h) \o <<" ", ":">> \o TwoDigits(m)

TimeAlphabet == {"0", "2", "6", ":", " ", "x"}

\* The calls of parseTime: hour and minute written in each shape, and every
\* string over TimeAlphabet up to MaxTimeLen characters (shape "raw").
ParseTimeCalls ==
    { [fn |-> "parseTime", shape |-> sh, hour |-> h, minute |-> m,
       timeStr |-> RenderTime(sh, h, m)] :
        sh \in TimeShapes, h \in HourInputs, m \in MinuteInputs }
    \cup
    { [fn |-> "parseTime", shape |-> "raw", hour |-> 0, minute |-> 0,
       timeStr |-> s] :
        s \in UNION {[1..k -> TimeAlphabet] : k \in 0..MaxTimeLen} }

InitParseTime ==
    /\ NoMonthlyCall
    /\ NoUpload
    /\ NoComponent
    /\ call \in ParseTimeCalls
    /\ result = Pending

CallParseTime ==
    /\ ~Done
    /\ call.fn = "parseTime"
    /\ result' = parseTime(call.timeStr)
    /\ UNCHANGED <<year, month, rawRecords, outcome, call, serverVars, componentVars>>

NextParseTime == CallParseTime

SpecParseTime == InitParseTime /\ [][NextParseTime]_vars

----------------------------------------------------------------------------
(* calculateWorkedHours called on two time strings *)

\* A time string with the minute of the day it denotes, -1 when parseTime
\* rejects it.
ClockTime(h, m) == [text |-> RenderTime("HH:MM", h, m), minuteOfDay |-> h * 60 + m]

RejectedTimes ==
    { [text |-> t, minuteOfDay |-> -1] :
        t \in { << >>, <<" ">>, RenderTime("HH:M", 9, 5), RenderTime("HH:MM", 24, 0),
                RenderTime("HH:MM", 12, 60) } }

\* The inTime of the calls: midnight, "9:00", 12:34, 23:00, 23:59 and the
\* rejected strings.
InTimeInputs ==
    { ClockTime(0, 0), [text |-> RenderTime("H:MM", 9, 0), minuteOfDay |-> 540],
      ClockTime(12, 34), ClockTime(23, 0), ClockTime(23, 59) }
    \cup RejectedTimes

\* The outTime of the calls: every minute of the day and the rejected strings.
OutTimeInputs ==
    { ClockTime(h, m) : h \in 0..23, m \in 0..59 } \cup RejectedTimes

WorkedHoursCalls ==
    { [fn |-> "calculateWorkedHours", inTime |-> i.text, outTime |-> o.text,
       inMinute |-> i.minuteOfDay, outMinute |-> o.minuteOfDay] :
        i \in InTimeInputs, o \in OutTimeInputs }

InitWorkedHours ==
    /\ NoMonthlyCall
    /\ NoUpload
    /\ NoComponent
    /\ call \in WorkedHoursCalls
    /\ result = Pending

CallWorkedHours ==
    /\ ~Done
    /\ call.fn = "calculateWorkedHours"
    /\ result' = calculateWorkedHours(call.inTime, call.outTime)
    /\ UNCHANGED <<year, month, rawRecords, outcome, call, serverVars, componentVars>>

NextWorkedHours == CallWorkedHours

SpecWorkedHours == InitWorkedHours /\ [][NextWorkedHours]_vars

----------------------------------------------------------------------------
(* getExpectedHours called on a date *)

\* Years of the dates: a century year that is not a leap year, a common
\* year, a leap year, and the last year the engine accepts.
DateYears == {1900, 2023, 2024, 2100}

\* Times of day of the dates, in minutes: midnight, 14:30 and 23:59.
DateTimes == {0, 870, 1439}

\* Every day of the years of DateYears at each time of DateTimes, and the
\* invalid Date.
DateInputs ==
    { d \in [year : DateYears, month : 0..11, day : 1..31, tod : DateTimes] :
        d.day <= DaysOfMonth(d.year, d.month) }
    \cup {InvalidDate}

InitExpectedHours ==
    /\ NoMonthlyCall
    /\ NoUpload
    /\ NoComponent
    /\ call \in { [fn |-> "getExpectedHours", date |-> d] : d \in DateInputs }
    /\ result = Pending

CallExpectedHours ==
    /\ ~Done
    /\ call.fn = "getExpectedHours"
    /\ result' = getExpectedHours(call.date)
    /\ UNCHANGED <<year, month, rawRecords, outcome, call, serverVars, componentVars>>

NextExpectedHours == CallExpectedHours

SpecExpectedHours == InitExpectedHours /\ [][NextExpectedHours]_vars

----------------------------------------------------------------------------
(* calculateProductivity called on two numbers of hours *)

\* actualHours of the calls, in hundredths: -0.01, every value up to 1.20,
\* and 4, 7, 8.5, 9.5 and 23.98.
ActualHoursInputs == (-1 .. 120) \cup {400, 700, 850, 950, 2398}

\* expectedHours of the calls, in hundredths: -8.5, 0, 4, 8, 8.5 and 12.5.
ExpectedHoursInputs == {-850, 0, 400, 800, 850, 1250}

InitProductivity ==
    /\ NoMonthlyCall
    /\ NoUpload
    /\ NoComponent
    /\ call \in { [fn |-> "calculateProductivity", actualHours |-> a,
                   expectedHours |-> e] :
                    a \in ActualHoursInputs, e \in ExpectedHoursInputs }
    /\ result = Pending

CallProductivity ==
    /\ ~Done
    /\ call.fn = "calculateProductivity"
    /\ result' = calculateProductivity(Hundredths(call.actualHours),
                                       Hundredths(call.expectedHours))
    /\ UNCHANGED <<year, month, rawRecords, outcome, call, serverVars, componentVars>>

NextProductivity == CallProductivity

SpecProductivity == InitProductivity /\ [][NextProductivity]_vars

----------------------------------------------------------------------------
(* calculateAggregateProductivity called on a list of processed records *)

\* Longest record list passed to calculateAggregateProductivity.
MaxRecords == 2

\* Monday 2024-01-01, Saturday 2024-01-06, Sunday 2024-01-07 and Saturday
\* 2024-01-13.
RecordDates ==
    { [year |-> 2024, month |-> 0, day |-> d, tod |-> 0] : d \in {1, 6, 7, 13} }

\* The shifts of the worked days: 09:00 to 09:58 (0.97 hours) and 00:00 to
\* 16:39 (16.65 hours).
RecordShifts ==
    { <<RenderTime("HH:MM", 9, 0), RenderTime("HH:MM", 9, 58)>>,
      <<RenderTime("HH:MM", 0, 0), RenderTime("HH:MM", 16, 39)>> }

\* The records, as processMonthlyAttendance builds them: every date worked
\* for each shift or not worked, and a Monday marked as a holiday.
RecordInputs ==
    { [employeeId |-> "emp1", date |-> d,
       inTime |-> Str(t[1]), outTime |-> Str(t[2]),
       workedHours |-> calculateWorkedHours(t[1], t[2]).value,
       status |-> "PRESENT"] :
        d \in RecordDates, t \in RecordShifts }
    \cup
    { [employeeId |-> "emp1", date |-> d, inTime |-> Null, outTime |-> Null,
       workedHours |-> 0,
       status |-> IF isSunday(d) THEN "WEEKEND" ELSE "ABSENT"] :
        d \in RecordDates }
    \cup
    { [employeeId |-> "emp1",
       date |-> [year |-> 2024, month |-> 0, day |-> 1, tod |-> 0],
       inTime |-> Null, outTime |-> Null, workedHours |-> 0, status |-> "HOLIDAY"] }

InitAggregate ==
    /\ NoMonthlyCall
    /\ NoUpload
    /\ NoComponent
    /\ call \in { [fn |-> "calculateAggregateProductivity", records |-> r] :
                    r \in UNION {[1..k -> RecordInputs] : k \in 0..MaxRecords} }
    /\ result = Pending

CallAggregate ==
    /\ ~Done
    /\ call.fn = "calculateAggregateProductivity"
    /\ result' = calculateAggregateProductivity(call.records)
    /\ UNCHANGED <<year, month, rawRecords, outcome, call, serverVars, componentVars>>

NextAggregate == CallAggregate

SpecAggregate == InitAggregate /\ [][NextAggregate]_vars

----------------------------------------------------------------------------
(* Repeated calls of processMonthlyAttendance.  Callers call the function
   one after the other with arguments of their choice; call.log keeps, for
   every call made, its arguments, the rawRecords array as the call left it
   and what the call produced. *)

\* Most calls in one behaviour.
MaxCalls == 2

\* The arguments of the calls: a year in and out of range, and the lists
\* of at most one raw entry.
RepeatInputs ==
    { [year |-> y, month |-> Int_(2), rawRecords |-> r] :
        y \in {Int_(2024), Int_(2101)},
        r \in {l \in RawRecordLists : Len(l) <= 1} }

InitRepeat ==
    /\ NoMonthlyCall
    /\ NoUpload
    /\ NoComponent
    /\ call = [fn |-> "processMonthlyAttendance", log |-> {}, calls |-> 0]
    /\ result = Pending

\* Variant of the call: the dates of the caller's entries are normalized in
\* place.
CallRepeat_InPlace ==
    /\ call.calls < MaxCalls
    /\ \E in \in RepeatInputs :
         /\ year' = in.year
         /\ month' = in.month
         /\ rawRecords' = [i \in 1..Len(in.rawRecords) |->
                              [in.rawRecords[i] EXCEPT !.date = normalizeDate(@)]]
         /\ outcome' = processMonthlyAttendance(in.year, in.month, in.rawRecords)
         /\ call' = [call EXCEPT !.calls = @ + 1,
                                 !.log = @ \cup {[given |-> in, after |-> rawRecords',
                                                  outcome |-> outcome']}]
    /\ UNCHANGED <<result, serverVars, componentVars>>

\* A call: the function reads its arguments and the constants of the module
\* and writes to no variable that outlives it; rawRecords.map builds a new
\* array of new objects and normalizeDate a new Date, so the caller's array
\* is afterwards what it was.
CallRepeat ==
    /\ call.calls < MaxCalls
    /\ \E in \in RepeatInputs :
         /\ year' = in.year
         /\ month' = in.month
         /\ rawRecords' = in.rawRecords
         /\ outcome' = processMonthlyAttendance(in.year, in.month, in.rawRecords)
         /\ call' = [call EXCEPT !.calls = @ + 1,
                                 !.log = @ \cup {[given |-> in, after |-> rawRecords',
                                                  outcome |-> outcome']}]
    /\ UNCHANGED <<result, serverVars, componentVars>>

NextRepeat == CallRepeat

SpecRepeat == InitRepeat /\ [][NextRepeat]_vars

----------------------------------------------------------------------------
(* normalizeTimeString of the upload route, called on a cell of the sheet.
   A cell is [type |-> "string", text |-> s], [type |-> "number",
   number |-> x] with x a binary64 number that is not negative, or
   [type |-> "boolean"]. *)

\* n.toString() for an integer n >= 0.
RECURSIVE toString(_)
toString(n) ==
    IF n < 10 THEN <<DigitChar(n)>>
    ELSE Append(toString(n \div 10), DigitChar(n % 10))

\* s.padStart(2, '0') for a non-empty string s.
padStart(s) == IF Len(s) < 2 THEN <<"0">> \o s ELSE s

\* toUpperCase on the letters of the period.
toUpperCase(s) ==
    [i \in 1..Len(s) |->
        CASE s[i] = "a" -> "A" [] s[i] = "p" -> "P" [] s[i] = "m" -> "M"
          [] OTHER -> s[i]]

\* s.match(/^(\d{1,2}):(\d{2})$/): whether it matches, and the two groups.
TimeMatch(s) ==
    LET n == Len(s) IN
    IF /\ n \in {4, 5}
       /\ s[n - 2] = ":"
       /\ \A i \in (1..n) \ {n - 2} : s[i] \in Digits
    THEN [matched |-> TRUE, hours |-> SubSeq(s, 1, n - 3), minutes |-> SubSeq(s, n - 1, n)]
    ELSE [matched |-> FALSE, hours |-> << >>, minutes |-> << >>]

\* s.match(/^(\d{1,2}):(\d{2})\s*(AM|PM)$/i): whether it matches, and the
\* three groups.
AmPmMatch(s) ==
    LET n      == Len(s)
        period == IF n >= 2 THEN SubSeq(s, n - 1, n) ELSE << >>
        clock  == IF n >= 2 THEN TimeMatch(TrimEnd(SubSeq(s, 1, n - 2)))
                  ELSE TimeMatch(<< >>)
    IN  IF toUpperCase(period) \in {<<"A", "M">>, <<"P", "M">>} /\ clock.matched
        THEN [matched |-> TRUE, hours |-> clock.hours, minutes |-> clock.minutes,
              period |-> period]
        ELSE [matched |-> FALSE, hours |-> << >>, minutes |-> << >>, period |-> << >>]

normalizeTimeString(timeValue) ==
    IF timeValue.type = "string"
    THEN LET trimmed   == trim(timeValue.text)
             amPmMatch == AmPmMatch(trimmed)
             timeMatch == TimeMatch(trimmed)
         IN  IF amPmMatch.matched
             THEN LET h      == parseInt(amPmMatch.hours)
                      period == toUpperCase(amPmMatch.period)
                      hours  == IF period = <<"P", "M">> /\ h # 12 THEN h + 12
                                ELSE IF period = <<"A", "M">> /\ h = 12 THEN 0
                                ELSE h
                  IN  Return(padStart(toString(hours)) \o <<":">> \o amPmMatch.minutes)
             ELSE IF timeMatch.matched
             THEN LET hours == parseInt(timeMatch.hours) IN
                  IF hours < 0 \/ hours > 23
                        \/ parseInt(timeMatch.minutes) < 0
                        \/ parseInt(timeMatch.minutes) > 59
                  THEN Throw("DataValidationError")
                  ELSE Return(padStart(toString(hours)) \o <<":">> \o timeMatch.minutes)
             ELSE Throw("DataValidationError")
    ELSE IF timeValue.type = "number"
    THEN \* Math.floor(totalMinutes / 60) and totalMinutes % 60 are exact on
         \* the integer that Math.round returns.
         LET totalMinutes ==
                 MathRound(FloatMul(FloatMul(timeValue.number, FloatOf(24)), FloatOf(60)))
             hours   == totalMinutes \div 60
             minutes == totalMinutes % 60
         IN  Return(padStart(toString(hours)) \o <<":">> \o padStart(toString(minutes)))
    ELSE Throw("DataValidationError")

\* The texts of a time cell: hour h and minute m in the notations of the
\* doc comment of normalizeTimeString, and notations it rejects.
CellShapes ==
    { "HH:MM", "H:MM", " H:MM ", "H:MM AM", "H:MM PM", "H:MMam", "H:MM  pm",
      "H:MM A", "H.MM", "HMM" }

CellText(shape, h, m) ==
    LET clock == toString(h) \o <<":">> \o TwoDigits(m % 100) IN
    CASE shape = "HH:MM"     -> padStart(toString(h)) \o <<":">> \o TwoDigits(m % 100)
      [] shape = "H:MM"      -> clock
      [] shape = " H:MM "    -> <<" ">> \o clock \o <<" ">>
      [] shape = "H:MM AM"   -> clock \o <<" ", "A", "M">>
      [] shape = "H:MM PM"   -> clock \o <<" ", "P", "M">>
      [] shape = "H:MMam"    -> clock \o <<"a", "m">>
      [] shape = "H:MM  pm"  -> clock \o <<" ", " ", "p", "m">>
      [] shape = "H:MM A"    -> clock \o <<" ", "A">>
      [] shape = "H.MM"      -> toString(h) \o <<".">> \o TwoDigits(m % 100)
      [] shape = "HMM"       -> toString(h) \o TwoDigits(m % 100)

\* Hours and minutes written into the cells.
CellHours == {0, 1, 9, 11, 12, 13, 23, 24, 99, 100}

CellMinutes == {0, 5, 30, 59, 60, 99}

\* Seconds of the day of the numeric cells: a time of day is the fraction
\* seconds / 86400.  86399 is 23:59:59 and 129600 is 1.5 days.
CellSeconds ==
    { 60 * k : k \in {0, 1, 59, 60, 540, 719, 720, 1050, 1439} }
    \cup {29, 30, 31, 86369, 86370, 86399, 129600}

TimeCells ==
    { [type |-> "string", text |-> CellText(sh, h, m), shape |-> sh,
       hour |-> h, minute |-> m] :
        sh \in CellShapes, h \in CellHours, m \in CellMinutes }
    \cup
    { [type |-> "number", number |-> FloatDiv(FloatOf(s), FloatOf(86400)),
       seconds |-> s] : s \in CellSeconds }
    \cup
    { [type |-> "boolean"] }

InitNormalizeTime ==
    /\ NoMonthlyCall
    /\ NoUpload
    /\ NoComponent
    /\ call \in { [fn |-> "normalizeTimeString", timeValue |-> c] : c \in TimeCells }
    /\ result = Pending

CallNormalizeTime ==
    /\ ~Done
    /\ call.fn = "normalizeTimeString"
    /\ result' = normalizeTimeString(call.timeValue)
    /\ UNCHANGED <<year, month, rawRecords, outcome, call, serverVars, componentVars>>

NextNormalizeTime == CallNormalizeTime

SpecNormalizeTime == InitNormalizeTime /\ [][NextNormalizeTime]_vars

----------------------------------------------------------------------------
(* POST /api/upload.  A sheet is a sequence of rows [name, date, inTime,
   outTime]: name is the text of the Employee Name cell, date an Excel
   serial number [days, minutes] standing for days + minutes / 1440 or an
   empty cell, and the times are cells as normalizeTimeString takes them.
   An empty cell is [type |-> "string", text |-> << >>] (defval ''). *)

\* Most requests that reach the route in one behaviour.
MaxUploads == 3

EmptyCell == [type |-> "string", text |-> << >>]

\* !cell for a cell of the sheet: the empty string and the number 0.
Missing(cell) ==
    \/ cell.type = "string" /\ cell.text = << >>
    \/ cell.type = "number" /\ FloatIsZero(cell.number)

\* new Date(time) for a time value of whole days from 1970-01-01: the
\* local civil date, at midnight.
DateOfDays(days) ==
    LET z   == days + 719468
        era == z \div 146097
        doe == z - era * 146097
        yoe == (doe - doe \div 1460 + doe \div 36524 - doe \div 146096) \div 365
        doy == doe - (365 * yoe + yoe \div 4 - yoe \div 100)
        mp  == (5 * doy + 2) \div 153
        m   == IF mp < 10 THEN mp + 3 ELSE mp - 9
    IN  [year  |-> yoe + era * 400 + (IF m <= 2 THEN 1 ELSE 0),
         month |-> m - 1,
         day   |-> doy - (153 * mp + 2) \div 5 + 1,
         tod   |-> 0]

\* parseExcelDate on the serial number of a date cell: the Excel epoch,
\* new Date(1899, 11, 30), plus the serial number in days.
parseExcelDate(excelDate) ==
    LET excelEpoch == NewDate(1899, 11, 30)
        epochDays  == DaysFromCivil(excelEpoch.year, excelEpoch.month + 1, excelEpoch.day)
    IN  [DateOfDays(epochDays + excelDate.days) EXCEPT !.tod = excelDate.minutes]

\* The body of the loop of parseExcelFile on one row: the normalized record
\* (a list of one), nothing for a skipped row, or the error thrown.
NormalizeRow(row) ==
    LET nameMissing == row.name = << >>
        dateMissing == row.date.type = "string"
    IN  IF nameMissing \/ dateMissing \/ Missing(row.inTime) \/ Missing(row.outTime)
        THEN IF nameMissing /\ dateMissing THEN Return(<< >>)
             ELSE Throw("DataValidationError")
        ELSE LET employeeName == trim(row.name) IN
             CHOOSE normalizedRecord \in
                 { IF employeeName = << >> THEN Throw("DataValidationError")
                   ELSE IF ~inTime.ok THEN inTime
                   ELSE IF ~outTime.ok THEN outTime
                   ELSE Return(<< [employeeName |-> employeeName,
                                   date         |-> parseExcelDate(row.date),
                                   inTime       |-> inTime.value,
                                   outTime      |-> outTime.value] >>) :
                     inTime  \in {normalizeTimeString(row.inTime)},
                     outTime \in {normalizeTimeString(row.outTime)} } : TRUE

RECURSIVE Concat(_)
Concat(lists) == IF lists = << >> THEN << >> ELSE Head(lists) \o Concat(Tail(lists))

\* parseExcelFile on the rows of the first sheet.
parseExcelFile(rows) ==
    CHOOSE parsed \in
        { LET failing == {i \in 1..Len(rows) : ~normalized[i].ok}
              normalizedRecords == Concat([i \in 1..Len(rows) |-> normalized[i].value])
          IN  IF rows = << >> THEN Throw("ExcelParsingError")
              ELSE IF failing # {}
              THEN Throw(normalized[CHOOSE i \in failing : \A j \in failing : i <= j].error)
              ELSE IF normalizedRecords = << >> THEN Throw("ExcelParsingError")
              ELSE Return(normalizedRecords) :
            normalized \in {[i \in 1..Len(rows) |-> NormalizeRow(rows[i])]} } : TRUE

\* The keys of recordsByEmployee in the order of the Map: the employee
\* names in order of first appearance.
RECURSIVE GroupNames(_)
GroupNames(records) ==
    IF records = << >> THEN << >>
    ELSE LET front == GroupNames(SubSeq(records, 1, Len(records) - 1))
             name  == records[Len(records)].employeeName
         IN  IF \E i \in 1..Len(front) : front[i] = name THEN front
             ELSE Append(front, name)

\* tx.employee.upsert for each name: the collection afterwards.  A name
\* that is not stored yet is created.
RECURSIVE UpsertEmployees(_, _)
UpsertEmployees(stored, names) ==
    IF names = << >> THEN stored
    ELSE LET before == UpsertEmployees(stored, SubSeq(names, 1, Len(names) - 1))
             name   == names[Len(names)]
         IN  IF \E i \in 1..Len(before) : before[i] = name THEN before
             ELSE Append(before, name)

\* employee.id: the id the database gave the stored employee of that name.
EmployeeId(stored, name) ==
    <<"id1", "id2", "id3">>[CHOOSE i \in 1..Len(stored) : stored[i] = name]

\* Variant of deleteMany: the range starts after startDate (gt for gte).
deleteMany_AfterStart(stored, employeeIds, targetYear, targetMonth) ==
    LET startDate == NewDate(targetYear, targetMonth - 1, 1)
        endDate   == [NewDate(targetYear, targetMonth - 1,
                              DaysOfMonth(targetYear, targetMonth - 1))
                         EXCEPT !.tod = 1439]
    IN  SelectSeq(stored,
                  LAMBDA r : ~(/\ r.employeeId \in employeeIds
                               /\ getTime(r.date) > getTime(startDate)
                               /\ getTime(r.date) <= getTime(endDate)))

\* tx.attendanceRecord.deleteMany: the collection without the records of
\* the employees dated from startDate, new Date(targetYear, targetMonth - 1,
\* 1), to endDate, new Date(targetYear, targetMonth, 0, 23, 59, 59, 999).
deleteMany(stored, employeeIds, targetYear, targetMonth) ==
    LET startDate == NewDate(targetYear, targetMonth - 1, 1)
        endDate   == [NewDate(targetYear, targetMonth - 1,
                              DaysOfMonth(targetYear, targetMonth - 1))
                         EXCEPT !.tod = 1439]
    IN  SelectSeq(stored,
                  LAMBDA r : ~(/\ r.employeeId \in employeeIds
                               /\ getTime(r.date) >= getTime(startDate)
                               /\ getTime(r.date) <= getTime(endDate)))

\* STEP 4C: processMonthlyAttendance on the rows of each employee, in the
\* order of the Map; the first error ends the loop.
RECURSIVE ProcessGroups(_, _, _, _, _)
ProcessGroups(names, normalizedRecords, stored, targetYear, targetMonth) ==
    IF names = << >> THEN Returned(<< >>)
    ELSE LET employeeName == Head(names)
             records == SelectSeq(normalizedRecords,
                                  LAMBDA r : r.employeeName = employeeName)
             raw == [i \in 1..Len(records) |->
                        [employeeId |-> EmployeeId(stored, employeeName),
                         date       |-> records[i].date,
                         inTime     |-> records[i].inTime,
                         outTime    |-> records[i].outTime]]
         IN  CHOOSE allProcessedRecords \in
                 { IF processedRecords.kind = "thrown" THEN processedRecords
                   ELSE IF rest.kind = "thrown" THEN rest
                   ELSE Returned(processedRecords.records \o rest.records) :
                     processedRecords \in
                         {processMonthlyAttendance(Int_(targetYear), Int_(targetMonth), raw)},
                     rest \in
                         {ProcessGroups(Tail(names), normalizedRecords, stored,
                                        targetYear, targetMonth)} } : TRUE

\* Variant of the transaction: what was upserted and deleted before an error
\* of STEP 4C stays.
Rollback_Partial(storedEmployees, storedRecords, upserted, remaining) ==
    [employees |-> upserted, attendanceRecords |-> remaining]

\* prisma.$transaction: the callback threw, and the collections are as they
\* were before it.
Rollback(storedEmployees, storedRecords, upserted, remaining) ==
    [employees |-> storedEmployees, attendanceRecords |-> storedRecords]

\* Variant of the target month: the date of the last record.
FirstDate_Last(normalizedRecords) == normalizedRecords[Len(normalizedRecords)].date

\* STEP 3: the date that gives targetYear and targetMonth.
FirstDate(normalizedRecords) == normalizedRecords[1].date

\* The response and the collections after POST on a sheet.  Every error
\* class of the sheet and of the engine is answered with status 400.
POST(rows, storedEmployees, storedRecords) ==
    CHOOSE answered \in
        { IF ~normalizedRecords.ok
          THEN [response  |-> [status |-> 400, error |-> normalizedRecords.error,
                               details |-> << >>],
                employees |-> storedEmployees, attendanceRecords |-> storedRecords]
          ELSE LET firstDate   == FirstDate(normalizedRecords.value)
                   targetYear  == firstDate.year
                   targetMonth == firstDate.month + 1
                   names       == GroupNames(normalizedRecords.value)
                   upserted    == UpsertEmployees(storedEmployees, names)
                   employeeIds == {EmployeeId(upserted, names[i]) : i \in 1..Len(names)}
                   remaining   == deleteMany(storedRecords, employeeIds,
                                             targetYear, targetMonth)
               IN  CHOOSE committed \in
                       { IF processed.kind = "thrown"
                         THEN LET after == Rollback(storedEmployees, storedRecords,
                                                    upserted, remaining)
                              IN  [response  |-> [status |-> 400, error |-> processed.error,
                                                  details |-> << >>],
                                   employees |-> after.employees,
                                   attendanceRecords |-> after.attendanceRecords]
                         ELSE [response  |->
                                   [status |-> 200, error |-> "none",
                                    details |-> << [employeeCount |-> Len(names),
                                                    recordCount   |-> Len(processed.records),
                                                    month         |-> targetMonth,
                                                    year          |-> targetYear] >>],
                               employees |-> upserted,
                               attendanceRecords |-> remaining \o processed.records] :
                           processed \in {ProcessGroups(names, normalizedRecords.value,
                                                        upserted, targetYear, targetMonth)} }
                       : TRUE :
            normalizedRecords \in {parseExcelFile(rows)} } : TRUE

\* Cells and rows of the sheets.  Serial number 45323 is 2024-02-01.
TextCell(s) == [type |-> "string", text |-> s]

DayCell(days, minutes) == [type |-> "number", days |-> days, minutes |-> minutes]

Row(name, date, inTime, outTime) ==
    [name |-> name, date |-> date, inTime |-> inTime, outTime |-> outTime]

T_9_00_AM == <<"9", ":", "0", "0", " ", "A", "M">>
T_5_30_PM == <<"5", ":", "3", "0", " ", "P", "M">>
T_13_00_PM == <<"1", "3", ":", "0", "0", " ", "P", "M">>

Ann == <<"A", "n", "n">>
Bob == <<"B", "o", "b">>

RowAnnFeb1  == Row(Ann, DayCell(45323, 0), TextCell(T_09_00), TextCell(T_17_30))
RowAnnFeb1b == Row(Ann \o <<" ">>, DayCell(45323, 870), TextCell(T_9_00_AM), TextCell(T_5_30_PM))
RowAnnFeb4  == Row(Ann, DayCell(45326, 0), TextCell(T_23_00s), TextCell(T_01_00s))
RowAnnMar1  == Row(Ann, DayCell(45352, 0), TextCell(T_09_00), TextCell(T_17_30))
RowAnnBad   == Row(Ann, DayCell(45327, 0), TextCell(T_13_00_PM), TextCell(T_17_30))
RowBobFeb1  == Row(Bob, DayCell(45323, 0), TextCell(T_9_00_AM), TextCell(T_5_30_PM))
RowBobFeb2  == Row(Bob, DayCell(45324, 0), TextCell(T_09_00), TextCell(T_17_30))
RowBobJan31 == Row(Bob, DayCell(45322, 0), TextCell(T_13_00_PM), TextCell(T_17_30))
RowBobBad   == Row(Bob, DayCell(45324, 0), TextCell(T_09_00), TextCell(T_13_00_PM))
RowEmpty    == Row(<< >>, EmptyCell, EmptyCell, EmptyCell)
RowNoTimes  == Row(Ann, DayCell(45323, 0), EmptyCell, EmptyCell)
RowBadText  == Row(Ann, DayCell(45323, 0), TextCell(T_9_5), TextCell(T_17_30))
RowAnn1899  == Row(Ann, DayCell(1, 0), TextCell(T_09_00), TextCell(T_17_30))

\* The sheets that are uploaded.
FileInputs ==
    { <<RowAnnFeb1>>,
      <<RowAnnFeb1, RowAnnFeb4, RowAnnFeb1b>>,
      <<RowEmpty, RowBobFeb1, RowAnnFeb1b, RowBobFeb2>>,
      <<RowBobFeb2, RowAnnMar1, RowBobJan31>>,
      <<RowAnnMar1, RowBobFeb1>>,
      <<RowBobFeb1, RowAnnFeb1, RowAnnBad>>,
      <<RowAnnFeb1, RowBobBad>>,
      <<RowAnnFeb1, RowNoTimes>>,
      <<RowBadText>>,
      <<RowAnn1899>>,
      <<RowEmpty>>,
      << >> }

InitUpload ==
    /\ NoMonthlyCall
    /\ NoComponent
    /\ NoUpload
    /\ call = [fn |-> "POST", requests |-> 0]
    /\ result = Pending

\* A request with a sheet reaches the route and is answered.
Upload ==
    /\ call.requests < MaxUploads
    /\ \E rows \in FileInputs :
         \E after \in {POST(rows, employees, attendanceRecords)} :
         /\ file' = rows
         /\ response' = after.response
         /\ employees' = after.employees
         /\ attendanceRecords' = after.attendanceRecords
    /\ call' = [call EXCEPT !.requests = @ + 1]
    /\ UNCHANGED <<year, month, rawRecords, outcome, result, componentVars>>

NextUpload == Upload

SpecUpload == InitUpload /\ [][NextUpload]_vars

----------------------------------------------------------------------------
(* The dashboard page (getData), reading the records that
   processMonthlyAttendance produced for a month and that the upload route
   persisted.  A stored workedHours is the binary64 number of its two
   decimals. *)

\* eachDayOfInterval: the days from start to end, both included.
eachDayOfInterval(start, end) ==
    LET first == DaysFromCivil(start.year, start.month + 1, start.day)
        last  == DaysFromCivil(end.year, end.month + 1, end.day)
    IN  [i \in 1..(last - first + 1) |-> DateOfDays(first + i - 1)]

\* totalExpected after the first n days of the loop.
RECURSIVE TotalExpected(_, _)
TotalExpected(allDays, n) ==
    IF n = 0 THEN Zero
    ELSE FloatAdd(TotalExpected(allDays, n - 1),
                  Hundredths(getExpectedHours(allDays[n]).value))

\* Variant of calculateMonthlyExpectedHours: only the days from Monday to
\* Friday are counted.
calculateMonthlyExpectedHours_Weekdays(y, m) ==
    LET firstDay == NewDate(y, m - 1, 1)
        allDays  == [d \in 1..DaysOfMonth(firstDay.year, firstDay.month) |->
                        setDate(firstDay, d)]
        weekdays == SelectSeq(allDays, LAMBDA day : ~isSaturday(day))
    IN  TotalExpected(weekdays, Len(weekdays))

\* The expected hours of a month, as a binary64 number: new Date(year,
\* month, 0) is the day before the first day of the next month.
calculateMonthlyExpectedHours(y, m) ==
    LET firstDay  == NewDate(y, m - 1, 1)
        nextFirst == NewDate(y, m, 1)
        lastDay   == DateOfDays(DaysFromCivil(nextFirst.year, nextFirst.month + 1, 1) - 1)
        allDays   == eachDayOfInterval(firstDay, lastDay)
    IN  TotalExpected(allDays, Len(allDays))

\* The body of the loop over the records: the entry of the record's
\* employee grows, or is created from the record.
SetRecord(employeeMap, record) ==
    LET existing == {i \in 1..Len(employeeMap) : employeeMap[i].id = record.employeeId}
        absent   == IF record.status = "ABSENT" THEN 1 ELSE 0
    IN  IF existing # {}
        THEN LET i == CHOOSE i \in existing : TRUE IN
             [employeeMap EXCEPT
                 ![i].workedHours = FloatAdd(@, Hundredths(record.workedHours)),
                 ![i].leavesTaken = @ + absent]
        ELSE Append(employeeMap, [id          |-> record.employeeId,
                                  workedHours |-> Hundredths(record.workedHours),
                                  leavesTaken |-> absent])

\* employeeMap after the first n records, in the order of insertion.
RECURSIVE EmployeeMap(_, _)
EmployeeMap(records, n) ==
    IF n = 0 THEN << >>
    ELSE CHOOSE t \in { SetRecord(before, records[n]) :
                          before \in {EmployeeMap(records, n - 1)} } : TRUE

\* employeeMetrics of getData for the records found for the month:
\* workedHours in hundredths of an hour, expectedHours as the binary64
\* number it is, productivityPercentage in tenths of a percent.
getData(y, m, records) ==
    IF records = << >> THEN Return(<< >>)
    ELSE LET monthlyExpectedHours == calculateMonthlyExpectedHours(y, m)
             employeeMap  == EmployeeMap(records, Len(records))
             productivity == [i \in 1..Len(employeeMap) |->
                                 calculateProductivity(employeeMap[i].workedHours,
                                                       monthlyExpectedHours)]
         IN  IF \E i \in 1..Len(employeeMap) : ~productivity[i].ok
             THEN Throw("CalculationError")
             ELSE Return([i \in 1..Len(employeeMap) |->
                     [employeeId    |-> employeeMap[i].id,
                      workedHours   |-> MathRound(FloatMul(employeeMap[i].workedHours,
                                                           FloatOf(100))),
                      expectedHours |-> monthlyExpectedHours,
                      leavesTaken   |-> employeeMap[i].leavesTaken,
                      productivityPercentage |-> productivity[i].value]])

\* The months shown: a leap and a common February, a January and the last
\* month of the range.
DashboardMonths == { <<2024, 2>>, <<2023, 2>>, <<2024, 1>>, <<2100, 12>> }

\* The days an employee may have worked, in order.
DashboardDays == <<1, 3, 4>>

\* The shifts of a worked day: 8.5 hours, 0.97 hours and 16.65 hours.
DashboardShifts == { <<T_09_00, T_17_30>> } \cup RecordShifts

\* The raw entries of one employee for the month ym: each of the days
\* worked for one of the shifts, or not worked.
DashboardEntries(ym) ==
    { LET worked == SelectSeq(DashboardDays, LAMBDA d : Len(shift[d]) = 2) IN
      [i \in 1..Len(worked) |->
          [employeeId |-> "emp1",
           date       |-> NewDate(ym[1], ym[2] - 1, worked[i]),
           inTime     |-> shift[worked[i]][1],
           outTime    |-> shift[worked[i]][2]]] :
        shift \in [{1, 3, 4} -> DashboardShifts \cup {<< >>}] }

\* The month has been processed from the raw entries and its records are
\* stored; the page has not been rendered.
InitDashboard ==
    /\ \E ym \in DashboardMonths :
         /\ year = Int_(ym[1])
         /\ month = Int_(ym[2])
         /\ rawRecords \in DashboardEntries(ym)
    /\ outcome = processMonthlyAttendance(year, month, rawRecords)
    /\ NoUpload
    /\ NoComponent
    /\ call = [fn |-> "getData"]
    /\ result = Pending

\* The page is rendered for the month: findMany yields the stored records
\* of the month by employee and date, which is the order they were made in.
CallDashboard ==
    /\ ~Done
    /\ call.fn = "getData"
    /\ outcome.kind = "returned"
    /\ result' = getData(year.n, month.n, outcome.records)
    /\ UNCHANGED <<year, month, rawRecords, outcome, call, serverVars, componentVars>>

NextDashboard == CallDashboard

SpecDashboard == InitDashboard /\ [][NextDashboard]_vars

----------------------------------------------------------------------------
(* The FileUpload component.  Its five state hooks are the variables
   selectedFile, uploadState, uploadProgress, errorMessage and
   uploadDetails; handlers holds, for every call of handleUpload, where the
   call stands (awaiting fetch, awaiting response.json(), or done), whether
   the response it received was OK, and whether its progress interval is
   still set.  A file is its name and its size in bytes. *)

\* Most uploads started in one behaviour.
MaxHandlers == 2

ALLOWED_EXTENSIONS == << <<".", "x", "l", "s", "x">>, <<".", "x", "l", "s">> >>

DEFAULT_MAX_FILE_SIZE == 10 * 1024 * 1024

\* String.prototype.toLowerCase on the letters of the file names.
toLowerCase(s) ==
    [i \in 1..Len(s) |->
        CASE s[i] = "X" -> "x" [] s[i] = "L" -> "l" [] s[i] = "S" -> "s"
          [] s[i] = "B" -> "b"
          [] OTHER -> s[i]]

\* String.prototype.endsWith.
endsWith(s, suffix) ==
    /\ Len(suffix) <= Len(s)
    /\ SubSeq(s, Len(s) - Len(suffix) + 1, Len(s)) = suffix

isValidFileExtension(filename) ==
    LET lowerFilename == toLowerCase(filename) IN
    \E e \in 1..Len(ALLOWED_EXTENSIONS) : endsWith(lowerFilename, ALLOWED_EXTENSIONS[e])

isValidFileSize(fileSize, maxSize) == fileSize > 0 /\ fileSize <= maxSize

\* The files a user picks: "a.xlsx" of 1 KB and of 0 bytes, "B.XLS" of
\* exactly 10 MB, "b.xls" of one byte more, "a.csv" and "xlsx".
PickedFiles ==
    { [name |-> <<"a", ".", "x", "l", "s", "x">>, size |-> 1024],
      [name |-> <<"a", ".", "x", "l", "s", "x">>, size |-> 0],
      [name |-> <<"B", ".", "X", "L", "S">>, size |-> DEFAULT_MAX_FILE_SIZE],
      [name |-> <<"b", ".", "x", "l", "s">>, size |-> DEFAULT_MAX_FILE_SIZE + 1],
      [name |-> <<"a", ".", "c", "s", "v">>, size |-> 1024],
      [name |-> <<"x", "l", "s", "x">>, size |-> 1024] }

\* event.target.files: no file or one file.
FileLists == {<< >>} \cup { <<f>> : f \in PickedFiles }

\* The details of a success response.
SuccessDetails == [employeeCount |-> 1, recordCount |-> 29, month |-> 2, year |-> 2024]

isUploading == uploadState = "uploading"

isSuccess == uploadState = "success"

isError == uploadState = "error"

isIdle == uploadState = "idle"

\* A control that opens the file dialog is rendered and the file input is
\* enabled: "Select File" or "Change File", or the upload area.
SelectOffered == ~isUploading /\ (isIdle \/ isError \/ (isIdle /\ selectedFile = << >>))

\* Variant: the "Upload" button is rendered whenever a file is selected.
UploadOffered_Always == selectedFile # << >>

\* The "Upload" button is rendered and enabled.
UploadOffered == (isIdle \/ isError) /\ selectedFile # << >> /\ ~isUploading

\* The "Upload Another File" button is rendered.
ResetOffered == isSuccess

InitComponent ==
    /\ NoMonthlyCall
    /\ NoUpload
    /\ call = [fn |-> "FileUpload"]
    /\ result = Pending
    /\ selectedFile = << >>
    /\ uploadState = "idle"
    /\ uploadProgress = 0
    /\ errorMessage = ""
    /\ uploadDetails = << >>
    /\ handlers = << >>

\* The user closes the file dialog with the files of the event.
handleFileChange ==
    /\ call.fn = "FileUpload"
    /\ SelectOffered
    /\ \E files \in FileLists :
         /\ uploadProgress' = 0
         /\ uploadDetails' = << >>
         /\ IF files = << >>
            THEN /\ errorMessage' = ""
                 /\ uploadState' = "idle"
                 /\ selectedFile' = << >>
            ELSE IF ~isValidFileExtension(files[1].name)
            THEN /\ errorMessage' = "Invalid file type"
                 /\ uploadState' = "error"
                 /\ selectedFile' = << >>
            ELSE IF ~isValidFileSize(files[1].size, DEFAULT_MAX_FILE_SIZE)
            THEN /\ errorMessage' = "File size exceeds maximum"
                 /\ uploadState' = "error"
                 /\ selectedFile' = << >>
            ELSE /\ errorMessage' = ""
                 /\ uploadState' = "idle"
                 /\ selectedFile' = <<files[1]>>
    /\ UNCHANGED <<year, month, rawRecords, outcome, call, result, serverVars, handlers>>

\* The user clicks "Upload": handleUpload runs up to its await of fetch.
\* Without a selected file it returns at once.
handleUpload ==
    /\ call.fn = "FileUpload"
    /\ UploadOffered
    /\ Len(handlers) < MaxHandlers
    /\ IF selectedFile = << >>
       THEN UNCHANGED <<uploadState, uploadProgress, errorMessage, handlers>>
       ELSE /\ errorMessage' = ""
            /\ uploadState' = "uploading"
            /\ uploadProgress' = 0
            /\ handlers' = Append(handlers,
                                  [stage |-> "fetch", ok |-> FALSE, interval |-> TRUE])
    /\ UNCHANGED <<year, month, rawRecords, outcome, call, result, serverVars,
                   selectedFile, uploadDetails>>

\* The progress interval of a call of handleUpload fires.
ProgressTick ==
    /\ \E i \in 1..Len(handlers) :
         /\ handlers[i].interval
         /\ IF uploadProgress >= 90
            THEN /\ handlers' = [handlers EXCEPT ![i].interval = FALSE]
                 /\ uploadProgress' = 90
            ELSE /\ uploadProgress' = uploadProgress + 10
                 /\ UNCHANGED handlers
    /\ UNCHANGED <<year, month, rawRecords, outcome, call, result, serverVars,
                   selectedFile, uploadState, errorMessage, uploadDetails>>

\* fetch resolves with a response, OK or not: the interval is cleared, the
\* progress set to 100 and response.json() awaited.
FetchResolves ==
    /\ \E i \in 1..Len(handlers), ok \in BOOLEAN :
         /\ handlers[i].stage = "fetch"
         /\ handlers' = [handlers EXCEPT ![i] =
                            [stage |-> "json", ok |-> ok, interval |-> FALSE]]
    /\ uploadProgress' = 100
    /\ UNCHANGED <<year, month, rawRecords, outcome, call, result, serverVars,
                   selectedFile, uploadState, errorMessage, uploadDetails>>

\* fetch rejects (network error): the catch block runs.  progressInterval
\* is declared in the try block, which the catch block cannot reach, so the
\* interval stays set.
FetchRejects ==
    /\ \E i \in 1..Len(handlers) :
         /\ handlers[i].stage = "fetch"
         /\ handlers' = [handlers EXCEPT ![i].stage = "done"]
    /\ uploadState' = "error"
    /\ errorMessage' = "Failed to fetch"
    /\ uploadProgress' = 0
    /\ UNCHANGED <<year, month, rawRecords, outcome, call, result, serverVars,
                   selectedFile, uploadDetails>>

\* response.json() resolves: an OK response ends the call in 'success', any
\* other throws into the catch block.  The refresh of the router a second
\* later leaves the state of the component alone.
JsonResolves ==
    /\ \E i \in 1..Len(handlers) :
         /\ handlers[i].stage = "json"
         /\ handlers' = [handlers EXCEPT ![i].stage = "done"]
         /\ IF handlers[i].ok
            THEN /\ uploadState' = "success"
                 /\ uploadDetails' = <<SuccessDetails>>
                 /\ UNCHANGED <<errorMessage, uploadProgress>>
            ELSE /\ uploadState' = "error"
                 /\ errorMessage' = "Upload failed"
                 /\ uploadProgress' = 0
                 /\ UNCHANGED uploadDetails
    /\ UNCHANGED <<year, month, rawRecords, outcome, call, result, serverVars,
                   selectedFile>>

\* response.json() rejects (the body is not JSON): the catch block runs.
JsonRejects ==
    /\ \E i \in 1..Len(handlers) :
         /\ handlers[i].stage = "json"
         /\ handlers' = [handlers EXCEPT ![i].stage = "done"]
    /\ uploadState' = "error"
    /\ errorMessage' = "Unexpected token"
    /\ uploadProgress' = 0
    /\ UNCHANGED <<year, month, rawRecords, outcome, call, result, serverVars,
                   selectedFile, uploadDetails>>

\* The user clicks "Upload Another File".
handleReset ==
    /\ call.fn = "FileUpload"
    /\ ResetOffered
    /\ selectedFile' = << >>
    /\ uploadState' = "idle"
    /\ uploadProgress' = 0
    /\ errorMessage' = ""
    /\ uploadDetails' = << >>
    /\ UNCHANGED <<year, month, rawRecords, outcome, call, result, serverVars, handlers>>

NextComponent ==
    \/ handleFileChange
    \/ handleUpload
    \/ ProgressTick
    \/ FetchResolves
    \/ FetchRejects
    \/ JsonResolves
    \/ JsonRejects
    \/ handleReset

SpecComponent == InitComponent /\ [][NextComponent]_vars

----------------------------------------------------------------------------
(* Vocabulary of the properties, stated on the calendar and on the inputs
   without the operators of the engine. *)

Called == outcome.kind # "none"

HasReturned == outcome.kind = "returned"

\* year is an integer in 1900..2100 and month an integer in 1..12.
TargetValid ==
    /\ ~year.half /\ year.n \in 1900..2100
    /\ ~month.half /\ month.n \in 1..12

\* Last day of the m-th month (m = 1 is January) of year y.
LastDayOfMonth(y, m) ==
    CASE m \in {4, 6, 9, 11} -> 30
      [] m = 2 -> IF (y % 4 = 0 /\ y % 100 # 0) \/ y % 400 = 0 THEN 29 ELSE 28
      [] OTHER -> 31

\* Day of the week of the civil date (y, m, d), m = 1 being January: 0 is
\* Sunday, 6 is Saturday (Sakamoto's method).
DayOfWeek(y, m, d) ==
    LET t  == <<0, 3, 2, 5, 0, 3, 5, 1, 4, 6, 2, 4>>
        yy == IF m < 3 THEN y - 1 ELSE y
    IN  (yy + yy \div 4 - yy \div 100 + yy \div 400 + t[m] + d) % 7

\* Day d of the target month, as the engine's records carry it.
TargetDay(d) == [year |-> year.n, month |-> month.n - 1, day |-> d, tod |-> 0]

SameCalendarDate(a, b) == a.year = b.year /\ a.month = b.month /\ a.day = b.day

\* The positions in rawRecords of the entries dated day d of the target month.
Matching(d) ==
    {j \in 1..Len(rawRecords) : SameCalendarDate(rawRecords[j].date, TargetDay(d))}

\* The first entry, in input order, dated day d of the target month.
FirstMatching(d) ==
    rawRecords[CHOOSE j \in Matching(d) : \A k \in Matching(d) : j <= k]

\* The entry carries an inTime or an outTime that parseTime rejects.
BadTimes(e) == ~parseTime(e.inTime).ok \/ ~parseTime(e.outTime).ok

InTargetMonth(e) == e.date.year = year.n /\ e.date.month + 1 = month.n

\* Some day of the target month has, as its first entry, one with bad times.
SomeMatchedEntryBad ==
    \E d \in 1..LastDayOfMonth(year.n, month.n) :
        Matching(d) # {} /\ BadTimes(FirstMatching(d))

\* rawRecords without the entries preceded by an entry of the same
\* calendar date.
RECURSIVE FirstPerDate(_)
FirstPerDate(s) ==
    IF s = << >> THEN << >>
    ELSE LET front == SubSeq(s, 1, Len(s) - 1)
             last  == s[Len(s)]
         IN  IF \E k \in 1..Len(front) : SameCalendarDate(front[k].date, last.date)
             THEN FirstPerDate(front)
             ELSE Append(FirstPerDate(front), last)

\* An outcome with the employeeId of its gap-filled records blanked.
ApartFromGapEmployee(o) ==
    [o EXCEPT !.records =
        [i \in 1..Len(o.records) |->
            IF o.records[i].status = "PRESENT" THEN o.records[i]
            ELSE [o.records[i] EXCEPT !.employeeId = ""]]]

----------------------------------------------------------------------------
(* Properties *)

\* C1: whenever processMonthlyAttendance returns, it returns exactly one
\* record for each calendar day of the target month, day 1 to the last day
\* (28, 29, 30 or 31, leap years respected), whatever the number of raw
\* entries; and it does return for every valid (year, month) when the raw
\* entries are well formed.
C1_OneRecordPerDay ==
    /\ HasReturned =>
         /\ Len(outcome.records) = LastDayOfMonth(year.n, month.n)
         /\ \A d \in 1..LastDayOfMonth(year.n, month.n) :
                Cardinality({i \in 1..Len(outcome.records) :
                                outcome.records[i].date = TargetDay(d)}) = 1
    /\ (Called /\ TargetValid /\ \A j \in 1..Len(rawRecords) : ~BadTimes(rawRecords[j]))
         => HasReturned

C1_Witness ==
    /\ HasReturned
    /\ year.n = 2024 /\ month.n = 2
    /\ Len(rawRecords) = 2
    /\ Len(outcome.records) = 29

\* C2: a day of the target month that no raw entry matches gets status
\* WEEKEND when it is a Sunday and ABSENT otherwise (a Saturday included),
\* with null inTime and outTime and 0 worked hours.
C2_GapFilled ==
    HasReturned =>
        \A d \in 1..Len(outcome.records) :
            Matching(d) = {} =>
                /\ outcome.records[d].status =
                       IF DayOfWeek(year.n, month.n, d) = 0 THEN "WEEKEND" ELSE "ABSENT"
                /\ outcome.records[d].inTime = Null
                /\ outcome.records[d].outTime = Null
                /\ outcome.records[d].workedHours = 0

\* processMonthlyAttendance(2024, 2, []): 29 records, Saturday the 3rd
\* ABSENT, Sunday the 4th and Sunday the 25th WEEKEND.
C2_Witness ==
    /\ HasReturned
    /\ year.n = 2024 /\ month.n = 2 /\ rawRecords = << >>
    /\ Len(outcome.records) = 29
    /\ outcome.records[3].status = "ABSENT"
    /\ outcome.records[4].status = "WEEKEND"
    /\ outcome.records[25].status = "WEEKEND"
    /\ \A d \in 1..29 : outcome.records[d].workedHours = 0

\* C3: a day of the target month for which some raw entry has the same
\* calendar date (whatever its time of day) gets status PRESENT, the worked
\* hours calculateWorkedHours computes from the matched entry's times, and
\* that entry's inTime and outTime unchanged.
C3_Matched ==
    HasReturned =>
        \A d \in 1..Len(outcome.records) :
            Matching(d) # {} =>
                LET e == FirstMatching(d) IN
                /\ outcome.records[d].status = "PRESENT"
                /\ outcome.records[d].workedHours =
                       calculateWorkedHours(e.inTime, e.outTime).value
                /\ outcome.records[d].inTime = Str(e.inTime)
                /\ outcome.records[d].outTime = Str(e.outTime)

\* An entry of 14:30 on 2024-02-01 with " 23:00" to "01:00 " is matched:
\* 2.00 hours, the strings kept with their blanks.
C3_Witness ==
    /\ HasReturned
    /\ year.n = 2024 /\ month.n = 2
    /\ Len(rawRecords) = 1
    /\ rawRecords[1].date.day = 1 /\ rawRecords[1].date.tod = 870
    /\ rawRecords[1].inTime = T_23_00s
    /\ outcome.records[1].status = "PRESENT"
    /\ outcome.records[1].workedHours = 200
    /\ outcome.records[1].inTime = Str(T_23_00s)
    /\ outcome.records[1].outTime = Str(T_01_00s)

\* C4: the returned records are in ascending date order: the record at
\* position i is the record of day i of the target month.
C4_AscendingDates ==
    HasReturned =>
        /\ \A i \in 1..Len(outcome.records) : outcome.records[i].date = TargetDay(i)
        /\ \A i \in 1..(Len(outcome.records) - 1) :
               getTime(outcome.records[i].date) < getTime(outcome.records[i + 1].date)

C4_Witness ==
    /\ HasReturned
    /\ Len(rawRecords) = 2
    /\ Len(outcome.records) = 31
    /\ outcome.records[1].date.day = 1
    /\ outcome.records[31].date.day = 31

C6_AnyBadRowFails ==
    (Called /\ TargetValid /\ \E j \in 1..Len(rawRecords) : BadTimes(rawRecords[j]))
        => (outcome.kind = "thrown" /\ outcome.error = "InvalidTimeFormatError")

\* C6, amended: for a valid (year, month) the call fails, and then with
\* InvalidTimeFormatError, exactly when some day of the target month has as
\* its first entry in input order one whose inTime or outTime parseTime
\* rejects; a bad entry dated outside the target month, or preceded by
\* another entry of the same date, does not fail the call.
C6_FirstMatchedBadRowFails ==
    (Called /\ TargetValid) =>
        /\ (outcome.kind = "thrown") <=> SomeMatchedEntryBad
        /\ (outcome.kind = "thrown") => outcome.error = "InvalidTimeFormatError"

\* A bad entry that follows a well-formed entry of the same date, and the
\* call returns.
C6_Witness ==
    /\ HasReturned
    /\ Len(rawRecords) = 2
    /\ InTargetMonth(rawRecords[1]) /\ ~BadTimes(rawRecords[1])
    /\ SameCalendarDate(rawRecords[1].date, rawRecords[2].date)
    /\ BadTimes(rawRecords[2])

\* C7: when several raw entries have the same calendar date, the day's
\* record takes the times and hours of the first of them in input order,
\* and the later ones have no effect on the outcome.
C7_FirstDuplicateWins ==
    Called =>
        /\ outcome = processMonthlyAttendance(year, month, FirstPerDate(rawRecords))
        /\ HasReturned =>
               \A d \in 1..Len(outcome.records) :
                   Cardinality(Matching(d)) > 1 =>
                       /\ outcome.records[d].inTime = Str(FirstMatching(d).inTime)
                       /\ outcome.records[d].outTime = Str(FirstMatching(d).outTime)
                       /\ outcome.records[d].employeeId = FirstMatching(d).employeeId

\* Two entries of 2024-02-01, at different times of day and with different
\* times: the record carries the first one's.
C7_Witness ==
    /\ HasReturned
    /\ Len(rawRecords) = 2
    /\ InTargetMonth(rawRecords[1])
    /\ SameCalendarDate(rawRecords[1].date, rawRecords[2].date)
    /\ rawRecords[1].date.tod # rawRecords[2].date.tod
    /\ rawRecords[1].inTime # rawRecords[2].inTime
    /\ ~BadTimes(rawRecords[2])
    /\ outcome.records[rawRecords[1].date.day].inTime = Str(rawRecords[1].inTime)

\* C8: raw entries dated outside the target (year, month) raise no error and
\* match no day: the outcome is that of the call without them, apart from
\* the employeeId of the gap-filled records.
C8_OutOfMonthIgnored ==
    (Called /\ TargetValid) =>
        ApartFromGapEmployee(outcome) =
            ApartFromGapEmployee(
                processMonthlyAttendance(year, month, SelectSeq(rawRecords, InTargetMonth)))

\* An entry of another month with bad times, then an entry of the target
\* month: the call returns and only the second is PRESENT.
C8_Witness ==
    /\ HasReturned
    /\ Len(rawRecords) = 2
    /\ ~InTargetMonth(rawRecords[1]) /\ BadTimes(rawRecords[1])
    /\ InTargetMonth(rawRecords[2])
    /\ Cardinality({d \in 1..Len(outcome.records) :
                       outcome.records[d].status = "PRESENT"}) = 1

\* C9, as claimed: every record of a call, matched or gap-filled, carries
\* the employeeId of the first raw entry.
C9_FirstEmployeeEverywhere ==
    (HasReturned /\ Len(rawRecords) > 0) =>
        \A d \in 1..Len(outcome.records) :
            outcome.records[d].employeeId = rawRecords[1].employeeId

\* C9, amended: a gap-filled record carries the employeeId of the first raw
\* entry (the empty string when there is no raw entry) and a matched record
\* carries the employeeId of the entry it matched; so every record of the
\* call carries the first raw entry's employeeId when all the raw entries
\* name the same employee.
C9_EmployeePerRecord ==
    HasReturned =>
        /\ \A d \in 1..Len(outcome.records) :
               outcome.records[d].employeeId =
                   IF Matching(d) # {} THEN FirstMatching(d).employeeId
                   ELSE IF Len(rawRecords) = 0 THEN ""
                   ELSE rawRecords[1].employeeId
        /\ (/\ Len(rawRecords) > 0
            /\ \A j \in 1..Len(rawRecords) :
                   rawRecords[j].employeeId = rawRecords[1].employeeId)
               => \A d \in 1..Len(outcome.records) :
                      outcome.records[d].employeeId = rawRecords[1].employeeId

\* The first entry, of emp1, is outside the month and the second, of emp2,
\* is matched: the gaps are emp1's and the matched record emp2's.
C9_Witness ==
    /\ HasReturned
    /\ Len(rawRecords) = 2
    /\ rawRecords[1].employeeId = "emp1" /\ ~InTargetMonth(rawRecords[1])
    /\ rawRecords[2].employeeId = "emp2" /\ InTargetMonth(rawRecords[2])
    /\ outcome.records[rawRecords[2].date.day].employeeId = "emp2"
    /\ outcome.records[2].employeeId = "emp1"

\* C10: the call fails with InvalidDateError, returning no records, exactly
\* when year is not an integer in 1900..2100 or month is not an integer in
\* 1..12; the bounds themselves are accepted, and month m denotes the m-th
\* calendar month.
C10_InvalidDateIff ==
    Called =>
        /\ (outcome = Thrown("InvalidDateError")) <=> ~TargetValid
        /\ outcome.error = "InvalidDateError" => outcome.kind = "thrown"
        /\ HasReturned =>
               /\ Len(outcome.records) = LastDayOfMonth(year.n, month.n)
               /\ \A d \in 1..Len(outcome.records) :
                      /\ outcome.records[d].date.year = year.n
                      /\ outcome.records[d].date.month + 1 = month.n

\* A year above the range with a raw entry: InvalidDateError and no record.
C10_Witness ==
    /\ outcome = Thrown("InvalidDateError")
    /\ year = Int_(2101) /\ month = Int_(12)
    /\ Len(rawRecords) = 1

----------------------------------------------------------------------------
(* Properties of parseTime *)

\* The strings of ^([0-1]?[0-9]|2[0-3]):([0-5][0-9])$, written out.
HourTexts ==
    { <<a>> : a \in Digits }
    \cup { <<a, b>> : a \in {"0", "1"}, b \in Digits }
    \cup { <<"2", b>> : b \in {"0", "1", "2", "3"} }

MinuteTexts == { <<a, b>> : a \in {"0", "1", "2", "3", "4", "5"}, b \in Digits }

RegexLanguage == { h \o <<":">> \o m : h \in HourTexts, m \in MinuteTexts }

\* s without the blanks before its first and after its last non-blank
\* character.
Stripped(s) ==
    LET solid == {i \in 1..Len(s) : s[i] # " "}
    IN  IF solid = {} THEN << >>
        ELSE SubSeq(s, CHOOSE i \in solid : \A j \in solid : i <= j,
                       CHOOSE i \in solid : \A j \in solid : i >= j)

ParseTimeDone == call.fn = "parseTime" /\ Done

ValidClockCall ==
    /\ call.shape \in {"HH:MM", "H:MM", " HH:MM", "HH:MM ", " HH:MM "}
    /\ call.hour \in 0..23
    /\ call.minute \in 0..59

\* C12: for every valid time string parseTime returns hour + minute / 60,
\* that is hour * 60 + minute sixtieths of an hour: the result times 60
\* recovers the minute of the day, so two strings with the same result
\* denote the same of the 1440 minutes of the day; and the binary64 number
\* hour + minute / 60.0, times 60 and rounded, is that minute of the day.
C12_DecimalHours ==
    ParseTimeDone /\ ValidClockCall =>
        /\ result = Return(call.hour * 60 + call.minute)
        /\ MathRound(FloatMul(DecimalHours(call.hour, call.minute), FloatOf(60)))
               = call.hour * 60 + call.minute
        /\ result.value \div 60 = call.hour
        /\ result.value % 60 = call.minute
        /\ \A h \in 0..23 :
               parseTime(RenderTime("HH:MM", h, call.minute)).value = result.value
                   => h = call.hour

\* "23:59" yields 1439 sixtieths of an hour.
C12_Witness ==
    /\ ParseTimeDone /\ ValidClockCall
    /\ call.shape = "HH:MM" /\ call.hour = 23 /\ call.minute = 59
    /\ result = Return(1439)

----------------------------------------------------------------------------
(* Properties of calculateWorkedHours *)

WorkedHoursDone == call.fn = "calculateWorkedHours" /\ Done

ValidTimesCall == call.inMinute >= 0 /\ call.outMinute >= 0

\* out - in, or 24 - in + out when out < in, in minutes.
WorkedMinutes ==
    IF call.outMinute >= call.inMinute
    THEN call.outMinute - call.inMinute
    ELSE 1440 - call.inMinute + call.outMinute

\* The binary64 number of worked hours that the code rounds and checks.
WorkedNumber ==
    WorkedHoursNumber(DecimalHours(call.inMinute \div 60, call.inMinute % 60),
                      DecimalHours(call.outMinute \div 60, call.outMinute % 60))

\* C13: for valid inTime and outTime calculateWorkedHours returns out - in
\* when out >= in (0 for equal times) and 24 - in + out when out < in: the
\* result is that duration in hundredths of an hour, exactly when the
\* duration is a whole number of hundredths (a multiple of 3 minutes) and
\* within one hundredth otherwise; 09:00 to 17:30 gives 8.5.
C13_DifferenceOrWraparound ==
    WorkedHoursDone /\ ValidTimesCall =>
        /\ result.ok
        /\ WorkedMinutes % 3 = 0 => result.value * 3 = WorkedMinutes * 5
        /\ 3 * result.value - 5 * WorkedMinutes \in -2..2
        /\ call.inMinute = call.outMinute => result.value = 0
        /\ call.inMinute = 540 /\ call.outMinute = 1050 => result.value = 850

\* 23:00 to 01:00, an overnight shift, gives 2.0.
C13_Witness ==
    /\ WorkedHoursDone
    /\ call.inMinute = 1380 /\ call.outMinute = 60
    /\ result = Return(200)

\* C14: for valid time strings the result lies in [0, 24), the binary64
\* number that is checked being below 24 too, and no call on strings raises
\* CalculationError: the only error is the InvalidTimeFormatError of
\* parseTime, raised exactly when one of the two strings is rejected.
C14_RangeAndErrors ==
    WorkedHoursDone =>
        /\ result.error # "CalculationError"
        /\ ValidTimesCall => FloatLess(WorkedNumber, FloatOf(24))
        /\ result.ok <=> ValidTimesCall
        /\ result.ok => result.value >= 0 /\ result.value < 2400
        /\ ~result.ok => result.error = "InvalidTimeFormatError"

\* 23:59 to 23:58, the longest shift, gives 23.98.
C14_Witness ==
    /\ WorkedHoursDone
    /\ call.inMinute = 1439 /\ call.outMinute = 1438
    /\ result = Return(2398)

\* C15: the result is the worked duration rounded to 2 decimal places: for
\* a duration of m minutes, 0 <= m < 1440, it is the hundredth of an hour
\* nearest to m / 60 (no duration lies halfway between two hundredths), and
\* it is what Math.round yields on the binary64 number of worked hours.
C15_NearestHundredth ==
    WorkedHoursDone /\ ValidTimesCall =>
        /\ WorkedMinutes \in 0..1439
        /\ MathRound(FloatMul(WorkedNumber, FloatOf(100))) = result.value
        /\ 2 * (60 * result.value - 100 * WorkedMinutes) \in -59..59
        /\ \A k \in {result.value - 1, result.value + 1} :
               (60 * k - 100 * WorkedMinutes) * (60 * k - 100 * WorkedMinutes)
                   > (60 * result.value - 100 * WorkedMinutes)
                       * (60 * result.value - 100 * WorkedMinutes)

\* 00:00 to 00:01: 1 / 60 = 0.01666... is rounded up to 0.02.
C15_Witness ==
    /\ WorkedHoursDone
    /\ call.inMinute = 0 /\ call.outMinute = 1
    /\ result = Return(2)

----------------------------------------------------------------------------
(* Properties of getExpectedHours *)

ExpectedHoursDone == call.fn = "getExpectedHours" /\ Done

\* Hundredths of an hour expected on a day of the week (0 is Sunday).
HoursOfWeekday(dow) ==
    CASE dow = 0 -> 0
      [] dow = 6 -> 400
      [] OTHER -> 850

\* C16: getExpectedHours depends only on the day of the week of its date:
\* 0.0 for every Sunday, 4.0 for every Saturday and 8.5 for every Monday to
\* Friday, in every month and year, a leap-year February included, and at
\* any time of the day.
C16_ByDayOfWeek ==
    ExpectedHoursDone /\ call.date # InvalidDate =>
        result = Return(HoursOfWeekday(
                     DayOfWeek(call.date.year, call.date.month + 1, call.date.day)))

\* Thursday 2024-02-29 at 23:59: 8.5 hours.
C16_Witness ==
    /\ ExpectedHoursDone
    /\ call.date = [year |-> 2024, month |-> 1, day |-> 29, tod |-> 1439]
    /\ result = Return(850)

----------------------------------------------------------------------------
(* Properties of calculateProductivity *)

ProductivityDone == call.fn = "calculateProductivity" /\ Done

\* n tenths of a percent is a tenth nearest to a / e * 100, a and e being
\* hundredths of an hour: n / 10 differs from it by 0.05 at most.
NearestTenthOfPercent(n, a, e) ==
    /\ 2 * (n * e - 1000 * a) <= e
    /\ 2 * (1000 * a - n * e) <= e

\* C17: calculateProductivity fails with its error when either argument is
\* negative; returns exactly 100.0 when expected is 0, whatever the
\* non-negative actual; otherwise returns actual / expected * 100 rounded to
\* the nearest tenth, values above 100 not capped: 111.8 for 9.5 and 8.5.
C17_ProductivityFormula ==
    ProductivityDone =>
        LET a == call.actualHours
            e == call.expectedHours
        IN  /\ (a < 0 \/ e < 0) <=> result = Throw("CalculationError")
            /\ a >= 0 /\ e = 0 => result = Return(1000)
            /\ a >= 0 /\ e > 0 =>
                   result.ok /\ NearestTenthOfPercent(result.value, a, e)
            /\ a = 950 /\ e = 850 => result = Return(1118)

\* 23.98 hours against 4 expected: 599.5 percent, far above 100.
C17_Witness ==
    /\ ProductivityDone
    /\ call.actualHours = 2398 /\ call.expectedHours = 400
    /\ result = Return(5995)

----------------------------------------------------------------------------
(* Properties of calculateAggregateProductivity *)

AggregateDone == call.fn = "calculateAggregateProductivity" /\ Done

RECURSIVE SumOver(_, _, _)
SumOver(F(_), records, n) ==
    IF n = 0 THEN 0 ELSE SumOver(F, records, n - 1) + F(records[n])

WorkedOf(record) == record.workedHours

ExpectedOf(record) ==
    HoursOfWeekday(DayOfWeek(record.date.year, record.date.month + 1, record.date.day))

\* C18: calculateAggregateProductivity fails on an empty list; on a
\* non-empty list actualHours is the sum of the records' workedHours and
\* expectedHours the sum of the hours expected on the records' dates, both
\* to 2 decimals, whatever the status of the records.
C18_TotalsFromDates ==
    AggregateDone =>
        /\ call.records = << >> <=> result = Throw("CalculationError")
        /\ call.records # << >> =>
               /\ result.ok
               /\ result.value.actualHours
                      = SumOver(WorkedOf, call.records, Len(call.records))
               /\ result.value.expectedHours
                      = SumOver(ExpectedOf, call.records, Len(call.records))

\* A Monday marked as a holiday and a Sunday worked for 16.65 hours: 8.5
\* hours are expected all the same.
C18_Witness ==
    /\ AggregateDone /\ result.ok
    /\ Len(call.records) = 2
    /\ call.records[1].status = "HOLIDAY"
    /\ call.records[2].date.day = 7 /\ call.records[2].workedHours = 1665
    /\ result.value.actualHours = 1665
    /\ result.value.expectedHours = 850

\* C19: for every non-empty record list the productivityPercentage returned
\* equals calculateProductivity applied to the actualHours and expectedHours
\* returned in the same result.
C19_PercentageOfReturnedTotals ==
    AggregateDone /\ result.ok =>
        result.value.productivityPercentage
            = calculateProductivity(Hundredths(result.value.actualHours),
                                    Hundredths(result.value.expectedHours)).value

----------------------------------------------------------------------------
(* The statuses of the records of processMonthlyAttendance *)

\* Some raw entry has the calendar date of the record r.
EntryMatches(r) ==
    \E j \in 1..Len(rawRecords) : SameCalendarDate(rawRecords[j].date, r.date)

\* C20: in every output of processMonthlyAttendance a record has status
\* PRESENT exactly when a raw entry matches its date; a Sunday with a
\* matching entry is PRESENT with the hours computed from that entry, not
\* WEEKEND; every other record is ABSENT or WEEKEND with workedHours 0 and
\* null times; the status HOLIDAY is never produced.
C20_StatusFollowsEntries ==
    HasReturned =>
        \A d \in 1..Len(outcome.records) :
            LET r == outcome.records[d] IN
            /\ r.status # "HOLIDAY"
            /\ (r.status = "PRESENT") <=> EntryMatches(r)
            /\ (EntryMatches(r) /\ DayOfWeek(r.date.year, r.date.month + 1, r.date.day) = 0)
                   => /\ r.status # "WEEKEND"
                      /\ r.workedHours =
                             calculateWorkedHours(FirstMatching(d).inTime,
                                                  FirstMatching(d).outTime).value
            /\ r.status # "PRESENT"
                   => /\ r.status \in {"ABSENT", "WEEKEND"}
                      /\ r.workedHours = 0
                      /\ r.inTime = Null
                      /\ r.outTime = Null

\* An entry of Sunday 2024-02-04 with "09:00" to "17:30": the 4th is PRESENT
\* with 8.50 hours, the Sunday after it WEEKEND and the Monday ABSENT, both
\* with 0 hours and null times.
C20_Witness ==
    /\ HasReturned
    /\ year.n = 2024 /\ month.n = 2
    /\ Len(rawRecords) = 1
    /\ rawRecords[1].date.day = 4 /\ rawRecords[1].inTime = T_09_00
    /\ outcome.records[4].status = "PRESENT"
    /\ outcome.records[4].workedHours = 850
    /\ outcome.records[11].status = "WEEKEND"
    /\ outcome.records[11].inTime = Null
    /\ outcome.records[5].status = "ABSENT"
    /\ outcome.records[5].workedHours = 0

----------------------------------------------------------------------------
(* Gap filling and the expected hours *)

\* C24: a gap-filled record (a record of a date no raw entry matches) has
\* status WEEKEND exactly when getExpectedHours of its date is 0 and status
\* ABSENT exactly when getExpectedHours of its date is above 0, so the
\* ABSENT records are the gap-filled days counted in the expected hours.
C24_GapStatusFollowsExpectedHours ==
    HasReturned =>
        \A d \in 1..Len(outcome.records) :
            LET r == outcome.records[d] IN
            ~EntryMatches(r) =>
                /\ getExpectedHours(r.date).ok
                /\ (r.status = "WEEKEND") <=> (getExpectedHours(r.date).value = 0)
                /\ (r.status = "ABSENT") <=> (getExpectedHours(r.date).value > 0)

\* February 2024 with one entry, on the 1st: Saturday the 3rd is gap-filled
\* ABSENT with 4 hours expected, Sunday the 4th WEEKEND with none, Monday
\* the 5th ABSENT with 8.5.
C24_Witness ==
    /\ HasReturned
    /\ year.n = 2024 /\ month.n = 2
    /\ Len(rawRecords) = 1 /\ rawRecords[1].date.day = 1
    /\ ~EntryMatches(outcome.records[3])
    /\ outcome.records[3].status = "ABSENT"
    /\ getExpectedHours(outcome.records[3].date).value = 400
    /\ outcome.records[4].status = "WEEKEND"
    /\ getExpectedHours(outcome.records[4].date).value = 0
    /\ outcome.records[5].status = "ABSENT"
    /\ getExpectedHours(outcome.records[5].date).value = 850

----------------------------------------------------------------------------
(* Properties of normalizeTimeString *)

NormalizeTimeDone == Done /\ call.fn = "normalizeTimeString"

\* The strings "00:00" to "23:59": two digits, a colon, two digits, the
\* hour at most 23 and the minute at most 59.
IsNormalizedTime(s) ==
    /\ Len(s) = 5
    /\ s[3] = ":"
    /\ \A i \in {1, 2, 4, 5} : s[i] \in Digits
    /\ parseInt(SubSeq(s, 1, 2)) <= 23
    /\ parseInt(SubSeq(s, 4, 5)) <= 59

\* C27: every string that normalizeTimeString returns is a normalized
\* 24-hour HH:MM time (hour 00 to 23, minute 00 to 59) that parseTime
\* accepts, for a string with or without AM/PM and for a numeric fraction of
\* a day; an input that cannot be normalized raises DataValidationError.
C27_ReturnsNormalizedTime ==
    NormalizeTimeDone =>
        IF result.ok
        THEN IsNormalizedTime(result.value) /\ parseTime(result.value).ok
        ELSE result.error = "DataValidationError"

----------------------------------------------------------------------------
(* Properties of POST /api/upload *)

\* The errors that processMonthlyAttendance raises.
EngineErrors == {"InvalidTimeFormatError", "InvalidDateError", "CalculationError"}

\* The request of this step is answered with an error of the engine.
EngineFailed == response.error \in EngineErrors

\* C21: when processMonthlyAttendance raises an error for an employee group
\* during an upload, the upload commits nothing: the stored attendance
\* records are exactly those stored before the request (none deleted, none
\* inserted) and the response has status 400.
C21_FailedUploadCommitsNothing ==
    [][(call'.requests = call.requests + 1 /\ EngineFailed')
          => /\ attendanceRecords' = attendanceRecords
             /\ response'.status = 400]_vars

\* Ann and Bob have their 58 records of February 2024 stored; a sheet naming
\* both, with "13:00 PM" on a day of February, is answered with status 400 and
\* the 58 records are still stored.
C21_Witness ==
    /\ file = <<RowBobFeb1, RowAnnFeb1, RowAnnBad>>
    /\ response.status = 400
    /\ response.error = "InvalidTimeFormatError"
    /\ Len(attendanceRecords) = 58
    /\ \A i \in 1..58 : attendanceRecords[i].date.month = 1

\* The rows of the last sheet that are not skipped, and the employees they
\* name.
DataRows == SelectSeq(file, LAMBDA r : r.name # << >>)

NamedEmployees == { trim(DataRows[i].name) : i \in 1..Len(DataRows) }

\* The positions of the stored records of the employee of that name dated
\* day d of month m (1 is January) of year y.
StoredFor(name, y, m, d) ==
    { i \in 1..Len(attendanceRecords) :
        /\ \E k \in 1..Len(employees) :
               employees[k] = name /\ attendanceRecords[i].employeeId = <<"id1", "id2", "id3">>[k]
        /\ attendanceRecords[i].date.year = y
        /\ attendanceRecords[i].date.month + 1 = m
        /\ attendanceRecords[i].date.day = d }

\* The stored records as a bag: each record with the number of its copies.
StoredBag(stored) ==
    [r \in {stored[i] : i \in 1..Len(stored)} |->
        Cardinality({i \in 1..Len(stored) : stored[i] = r})]

\* C22: after any sequence of uploads, storage holds at most one attendance
\* record per employee and calendar date; after a successful upload for
\* month M each employee named in the sheet has exactly one stored record for
\* every day of M; and a successful upload of the sheet that was uploaded
\* successfully just before leaves the same stored records.
C22_OneRecordPerEmployeeAndDate ==
    /\ [](\A i, j \in 1..Len(attendanceRecords) :
            (/\ i # j
             /\ attendanceRecords[i].employeeId = attendanceRecords[j].employeeId)
               => ~SameCalendarDate(attendanceRecords[i].date, attendanceRecords[j].date))
    /\ [](response.status = 200 =>
            LET M == response.details[1] IN
            \A name \in NamedEmployees :
                \A d \in 1..LastDayOfMonth(M.year, M.month) :
                    Cardinality(StoredFor(name, M.year, M.month, d)) = 1)
    /\ [][(/\ call'.requests = call.requests + 1
           /\ file' = file
           /\ response.status = 200)
             => /\ response' = response
                /\ employees' = employees
                /\ StoredBag(attendanceRecords') = StoredBag(attendanceRecords)]_vars

\* Three requests, the last one a successful upload of the sheet with two
\* rows of Bob and one of Ann: 58 records are stored, 29 for each.
C22_Witness ==
    /\ call.requests = 3
    /\ file = <<RowEmpty, RowBobFeb1, RowAnnFeb1b, RowBobFeb2>>
    /\ response.status = 200
    /\ Len(attendanceRecords) = 58
    /\ Cardinality(StoredFor(Ann, 2024, 2, 29)) = 1
    /\ Cardinality(StoredFor(Bob, 2024, 2, 1)) = 1

\* The serial number days is a day of month m (1 is January) of year y.
SerialInMonth(days, y, m) ==
    /\ DaysFromCivil(y, m, 1) + 25569 <= days
    /\ days <= DaysFromCivil(y, m, LastDayOfMonth(y, m)) + 25569

\* parseTime accepts both times of the row as normalizeTimeString returns
\* them.
RowTimesAccepted(row) ==
    /\ parseTime(normalizeTimeString(row.inTime).value).ok
    /\ parseTime(normalizeTimeString(row.outTime).value).ok

\* C26: an upload processes one target (year, month), that of the first data
\* row, for every employee group: the records it inserts are one per named
\* employee and day of that month, PRESENT exactly on the days for which the
\* employee has a row; rows dated in another month give no PRESENT record,
\* and an error of a time is raised only for a row of the target month.
C26_OneTargetMonth ==
    /\ response.status = 200 =>
         LET M        == response.details[1]
             last     == LastDayOfMonth(M.year, M.month)
             inserted == SubSeq(attendanceRecords,
                                Len(attendanceRecords) - M.recordCount + 1,
                                Len(attendanceRecords))
         IN  /\ SerialInMonth(DataRows[1].date.days, M.year, M.month)
             /\ M.employeeCount = Cardinality(NamedEmployees)
             /\ M.recordCount = M.employeeCount * last
             /\ \A i \in 1..Len(inserted) :
                    inserted[i].date.year = M.year /\ inserted[i].date.month + 1 = M.month
             /\ \A name \in NamedEmployees :
                    \A d \in 1..last :
                        /\ Cardinality(StoredFor(name, M.year, M.month, d)) = 1
                        /\ \A i \in StoredFor(name, M.year, M.month, d) :
                               attendanceRecords[i].status = "PRESENT"
                                 <=> \E k \in 1..Len(DataRows) :
                                        /\ trim(DataRows[k].name) = name
                                        /\ DataRows[k].date.days
                                              = DaysFromCivil(M.year, M.month, d) + 25569
    /\ response.error = "InvalidTimeFormatError" =>
         LET target == parseExcelDate(DataRows[1].date) IN
         \E k \in 1..Len(DataRows) :
             /\ SerialInMonth(DataRows[k].date.days, target.year, target.month + 1)
             /\ ~RowTimesAccepted(DataRows[k])

\* The sheet <Bob 2024-02-02, Ann 2024-03-01, Bob 2024-01-31 "13:00 PM">
\* is processed for February 2024: 58 records, Bob PRESENT on the 2nd only,
\* Ann on no day, and no error for the time of the row of January.
C26_Witness ==
    /\ file = <<RowBobFeb2, RowAnnMar1, RowBobJan31>>
    /\ response.status = 200
    /\ response.details[1].month = 2
    /\ response.details[1].recordCount = 58
    /\ ~RowTimesAccepted(RowBobJan31)
    /\ \A i \in 1..Len(attendanceRecords) :
           attendanceRecords[i].status = "PRESENT"
             => attendanceRecords[i].date.month = 1 /\ attendanceRecords[i].date.day \in {1, 2}
    /\ \A i \in StoredFor(Bob, 2024, 2, 2) : attendanceRecords[i].status = "PRESENT"
    /\ \A d \in 1..29 : \A i \in StoredFor(Ann, 2024, 2, d) : attendanceRecords[i].status # "PRESENT"

----------------------------------------------------------------------------
(* Properties of repeated calls of processMonthlyAttendance *)

----------------------------------------------------------------------------
(* Properties of the dashboard *)

\* C25: for the records that processMonthlyAttendance produced for one
\* employee and one month, the dashboard shows one employee, whose
\* expectedHours (calculateMonthlyExpectedHours) and productivityPercentage
\* are the expectedHours and the productivityPercentage that
\* calculateAggregateProductivity returns over those records.
C25_DashboardAgreesWithAggregator ==
    call.fn = "getData" /\ Done =>
        LET metrics == calculateAggregateProductivity(outcome.records) IN
        /\ result.ok
        /\ metrics.ok
        /\ Len(result.value) = 1
        /\ result.value[1].expectedHours = Hundredths(metrics.value.expectedHours)
        /\ result.value[1].productivityPercentage = metrics.value.productivityPercentage

\* February 2024 with 0.97 hours on the 1st, 16.65 on Saturday the 3rd and
\* 0.97 on Sunday the 4th: 194.5 hours expected on the dashboard.
C25_Witness ==
    /\ call.fn = "getData" /\ Done /\ result.ok
    /\ year.n = 2024 /\ month.n = 2
    /\ Len(rawRecords) = 3
    /\ outcome.records[1].workedHours = 97
    /\ outcome.records[3].workedHours = 1665
    /\ outcome.records[4].workedHours = 97
    /\ result.value[1].expectedHours = Hundredths(19450)
    /\ result.value[1].workedHours = 1859
    /\ result.value[1].leavesTaken = 23
    /\ result.value[1].productivityPercentage = 96

----------------------------------------------------------------------------
(* Properties of the FileUpload component *)

\* The calls of handleUpload whose request has not been answered in full.
InFlight == {i \in 1..Len(handlers) : handlers[i].stage \in {"fetch", "json"}}

\* The file passes the validation of the extension and of the size.
PassedValidation(f) ==
    LET n == Len(f.name) IN
    /\ \/ n >= 5 /\ SubSeq(f.name, n - 4, n) = <<".", "x", "l", "s", "x">>
       \/ n >= 4 /\ SubSeq(f.name, n - 3, n) \in { <<".", "x", "l", "s">>,
                                                    <<".", "X", "L", "S">> }
    /\ f.size \in 1..10485760

\* C28: at most one upload request is in flight at any time; a request is
\* sent only when a file that passed the extension and size validation is
\* selected; while uploadState is 'uploading' no second upload is started
\* and the selected file does not change.
C28_OneRequestInFlight ==
    /\ [](call.fn = "FileUpload" =>
            /\ Cardinality(InFlight) <= 1
            /\ (InFlight # {}) <=> isUploading
            /\ selectedFile # << >> => PassedValidation(selectedFile[1]))
    /\ [][call.fn = "FileUpload" =>
            /\ Len(handlers') > Len(handlers) =>
                   /\ selectedFile # << >>
                   /\ PassedValidation(selectedFile[1])
                   /\ ~isUploading
            /\ isUploading =>
                   /\ selectedFile' = selectedFile
                   /\ Len(handlers') = Len(handlers)]_vars

\* A second upload of "B.XLS" (10 MB) is in flight with the progress at 90,
\* the first one having ended.
C28_Witness ==
    /\ call.fn = "FileUpload"
    /\ isUploading
    /\ Len(handlers) = 2
    /\ handlers[1].stage = "done" /\ handlers[2].stage = "fetch"
    /\ selectedFile # << >>
    /\ selectedFile[1].size = 10485760
    /\ uploadProgress = 90

\* The messages of a failed upload.
UploadErrors == {"Failed to fetch", "Upload failed", "Unexpected token"}

\* C29: once an upload has failed (network error or error response)
\* uploadState is 'error' and uploadProgress is 0, and uploadProgress stays
\* 0 until the user selects a file or starts another upload, either of
\* which replaces the message of the failure.
C29_ProgressStaysZeroAfterFailure ==
    (call.fn = "FileUpload" /\ errorMessage \in UploadErrors) =>
        /\ isError
        /\ uploadProgress = 0

\* The moves of uploadState made by handleUpload and by reset; a retry
\* after an error starts the path again.
UploadMoves ==
    { <<"idle", "uploading">>, <<"error", "uploading">>,
      <<"uploading", "success">>, <<"uploading", "error">>,
      <<"success", "idle">> }

\* C30: apart from file selections, uploadState moves only along idle ->
\* uploading -> success or error; 'success' is entered only by a call that
\* received an OK response, and then uploadProgress is 100 and uploadDetails
\* is set; while the request is pending uploadProgress is at most 90; and
\* in 'success' the only change of selectedFile, uploadState, errorMessage
\* or uploadDetails is the reset, after which every state variable has its
\* initial value.
C30_UploadStateMachine ==
    /\ []((call.fn = "FileUpload" /\ \E i \in 1..Len(handlers) : handlers[i].stage = "fetch")
             => uploadProgress <= 90)
    /\ [][call.fn = "FileUpload" =>
            /\ (uploadState' # uploadState /\ ~handleFileChange)
                   => <<uploadState, uploadState'>> \in UploadMoves
            /\ (uploadState' = "success" /\ ~isSuccess) =>
                   /\ \E i \in 1..Len(handlers) :
                         /\ handlers[i].stage = "json" /\ handlers[i].ok
                         /\ handlers'[i].stage = "done"
                   /\ uploadProgress' = 100
                   /\ uploadDetails' # << >>
            /\ (isSuccess /\ <<selectedFile, uploadState, errorMessage, uploadDetails>>'
                                # <<selectedFile, uploadState, errorMessage, uploadDetails>>)
                   => /\ selectedFile' = << >>
                      /\ uploadState' = "idle"
                      /\ uploadProgress' = 0
                      /\ errorMessage' = ""
                      /\ uploadDetails' = << >>]_vars

====
